---- MODULE Spec2Model ----
(***************************************************************************)
(* Inkrypt: the Temporal pentest pipeline (pentestPipelineWorkflow and its *)
(* domain runners), the activity wrapper executeAgentActivity with the     *)
(* host's retry policy, the error classifier, and the metrics snapshot     *)
(* (MetricsTracker over session.json, written through atomicWrite).        *)
(*                                                                         *)
(* Abstractions: timestamps, durations and token counts are left out (they *)
(* are copied through and never read by the code modelled here); a cost is *)
(* a natural number of cost units; an error message is the sequence of its *)
(* words.                                                                  *)
(***************************************************************************)
EXTENDS Integers, Sequences, FiniteSets, TLC

\* ------------------------------------------------------------------ bounds
\* How many of the launched domains the model runs (the first NumDomains of
\* the launch order), and the largest cost one task run reports.
NumDomains == 2
MaxCost == 1
\* How often the worker process dies.
MaxCrashes == 1
\* For how many heartbeat intervals one call of an attempt is followed.
MaxWait == 16
\* How many attempts of the tracked agents the host starts over before the
\* faults stop: past it no attempt raises and the process does not die.
MaxRetries == 1

\* ------------------------------------------------------- program constants
\* retry.maximumAttempts of proxyActivities
maximumAttempts == 3
\* heartbeatTimeout of proxyActivities ('30s'), the interval of the heartbeat
\* timers, and the timeout of one git command, in milliseconds.
heartbeatTimeout == 30000
HEARTBEAT_INTERVAL_MS == 2000
gitTimeout == 30000

\* The launch order of the domain runners.
LaunchOrder == <<"ssh", "privesc", "network", "misconfig", "credential", "rdp", "vnc">>

Domains == {LaunchOrder[i] : i \in 1..NumDomains}

vulnAgent(domain) == domain \o "-vuln"

exploitAgent(domain) == domain \o "-exploit"

SequentialAgents == {"pre-recon", "recon", "report"}

DomainAgents == {vulnAgent(d) : d \in Domains} \cup {exploitAgent(d) : d \in Domains}

Agents == SequentialAgents \cup DomainAgents

\* Activity types the workflow schedules that wrap no agent.
ToolActivities == {"preReconToolScanActivity", "assembleReportActivity"}

\* The agents whose activity function allActivities registers on the worker.
RegisteredAgents ==
    {"pre-recon", "recon", "ssh-vuln", "privesc-vuln", "network-vuln",
     "misconfig-vuln", "credential-vuln", "ssh-exploit", "privesc-exploit",
     "network-exploit", "misconfig-exploit", "credential-exploit", "report"}

\* Expected deliverable files per agent; an agent without an entry expects none.
AGENT_VALIDATORS(agent) ==
    CASE agent = "pre-recon" -> {"nmap-results.txt", "ssh-audit-results.txt", "service-enumeration.md"}
      [] agent = "recon" -> {"attack-surface.md", "technology-stack.md", "entry-points.md"}
      [] agent = "ssh-vuln" -> {"vuln-queue-ssh.md"}
      [] agent = "privesc-vuln" -> {"vuln-queue-privesc.md"}
      [] agent = "network-vuln" -> {"vuln-queue-network.md"}
      [] agent = "misconfig-vuln" -> {"vuln-queue-misconfig.md"}
      [] agent = "credential-vuln" -> {"vuln-queue-credential.md"}
      [] agent = "ssh-exploit" -> {"exploit-results-ssh.md"}
      [] agent = "privesc-exploit" -> {"exploit-results-privesc.md"}
      [] agent = "network-exploit" -> {"exploit-results-network.md"}
      [] agent = "misconfig-exploit" -> {"exploit-results-misconfig.md"}
      [] agent = "credential-exploit" -> {"exploit-results-credential.md"}
      [] agent = "report" -> {"pentest-report.md"}
      [] OTHER -> {}

\* ------------------------------------------------------- error classifier
\* An Error is [name, message]; the message is the sequence of its words.
NoError == [name |-> "", message |-> <<>>]

Err(words) == [name |-> "Error", message |-> words]

\* String.prototype.toLowerCase, word by word.
toLowerCase(w) ==
    CASE w = "ECONNREFUSED" -> "econnrefused"
      [] w = "EHOSTUNREACH" -> "ehostunreach"
      [] w = "ETIMEDOUT" -> "etimedout"
      [] w = "ENOENT" -> "enoent"
      [] w = "EPERM" -> "eperm"
      [] w = "EACCES" -> "eacces"
      [] w = "ENOSPC" -> "enospc"
      [] w = "SSH" -> "ssh"
      [] w = "Permission" -> "permission"
      [] w = "Unauthorized" -> "unauthorized"
      [] w = "ConfigError" -> "configerror"
      [] w = "Error" -> "error"
      [] w = "PentestError" -> "pentesterror"
      [] OTHER -> w

lower(words) == [i \in 1..Len(words) |-> toLowerCase(words[i])]

\* String.prototype.includes on word sequences: pat occurs contiguously.
includes(words, pat) ==
    \E i \in 0..(Len(words) - Len(pat)) :
        \A j \in 1..Len(pat) : words[i + j] = pat[j]

\* The checks of classifyError as an ordered table: the rule of each `if`, in
\* source order, with the names and message patterns it tests.
ClassificationTable ==
    <<[type |-> "auth_error", retryable |-> FALSE, names |-> {},
       patterns |-> {<<"api", "key">>, <<"unauthorized">>,
                     <<"authentication", "failed">>, <<"invalid", "api">>}],
      [type |-> "config_error", retryable |-> FALSE, names |-> {"configerror"},
       patterns |-> {<<"config">>, <<"schema", "validation">>}],
      [type |-> "target_unreachable", retryable |-> TRUE, names |-> {},
       patterns |-> {<<"econnrefused">>, <<"ehostunreach">>,
                     <<"host", "unreachable">>, <<"no", "route", "to", "host">>}],
      [type |-> "ssh_connection_error", retryable |-> TRUE, names |-> {},
       patterns |-> {<<"ssh">>, <<"connection", "reset">>, <<"broken", "pipe">>}],
      [type |-> "permission_denied", retryable |-> FALSE, names |-> {},
       patterns |-> {<<"permission", "denied">>, <<"access", "denied">>, <<"eperm">>}],
      [type |-> "tool_not_found", retryable |-> FALSE, names |-> {},
       patterns |-> {<<"not", "found">>, <<"command", "not", "found">>, <<"enoent">>}],
      [type |-> "timeout_error", retryable |-> TRUE, names |-> {},
       patterns |-> {<<"timeout">>, <<"etimedout">>, <<"timed", "out">>}],
      [type |-> "rate_limit", retryable |-> TRUE, names |-> {},
       patterns |-> {<<"rate", "limit">>, <<"429">>, <<"too", "many", "requests">>}],
      [type |-> "transient_error", retryable |-> TRUE, names |-> {},
       patterns |-> {<<"500">>, <<"502">>, <<"503">>, <<"temporary">>, <<"transient">>}],
      [type |-> "agent_error", retryable |-> TRUE, names |-> {},
       patterns |-> {<<"agent">>, <<"claude">>, <<"anthropic">>}],
      [type |-> "validation_error", retryable |-> FALSE, names |-> {},
       patterns |-> {<<"validation">>, <<"deliverable">>, <<"expected", "output">>}]>>

\* The final return of classifyError.
CatchAll == [type |-> "unknown_error", retryable |-> TRUE]

\* The condition of the `if` of a rule.
matches(error, rule) ==
    \/ toLowerCase(error.name) \in rule.names
    \/ \E p \in rule.patterns : includes(lower(error.message), p)

Matching(error) == {i \in 1..Len(ClassificationTable) : matches(error, ClassificationTable[i])}

\* The rule classifyError returns from: the first one whose condition holds.
firstMatch(error) ==
    LET hits == Matching(error)
    IN  IF hits = {} THEN CatchAll
        ELSE LET i == CHOOSE k \in hits : \A j \in hits : k <= j
             IN  [type |-> ClassificationTable[i].type,
                  retryable |-> ClassificationTable[i].retryable]

\* A classifier in which the last matching rule wins.
classifyErrorLastMatch(error) ==
    IF Matching(error) = {} THEN CatchAll
    ELSE LET i == CHOOSE k \in Matching(error) : \A j \in Matching(error) : k >= j
         IN  [type |-> ClassificationTable[i].type,
              retryable |-> ClassificationTable[i].retryable]

\* A classifier that gives up on a fault no rule matches.
classifyErrorGivesUp(error) ==
    IF Matching(error) = {} THEN [type |-> "unknown_error", retryable |-> FALSE]
    ELSE firstMatch(error)

\* A classifier that does not retry a timeout.
classifyErrorTimeoutFinal(error) ==
    IF firstMatch(error).type = "timeout_error"
    THEN [type |-> "timeout_error", retryable |-> FALSE]
    ELSE firstMatch(error)

classifyError(error) ==
    LET message == lower(error.message)
        name == toLowerCase(error.name)
        has(p) == includes(message, p)
    IN  IF has(<<"api", "key">>) \/ has(<<"unauthorized">>)
            \/ has(<<"authentication", "failed">>) \/ has(<<"invalid", "api">>)
        THEN [type |-> "auth_error", retryable |-> FALSE]
        ELSE IF name = "configerror" \/ has(<<"config">>) \/ has(<<"schema", "validation">>)
        THEN [type |-> "config_error", retryable |-> FALSE]
        ELSE IF has(<<"econnrefused">>) \/ has(<<"ehostunreach">>)
            \/ has(<<"host", "unreachable">>) \/ has(<<"no", "route", "to", "host">>)
        THEN [type |-> "target_unreachable", retryable |-> TRUE]
        ELSE IF has(<<"ssh">>) \/ has(<<"connection", "reset">>) \/ has(<<"broken", "pipe">>)
        THEN [type |-> "ssh_connection_error", retryable |-> TRUE]
        ELSE IF has(<<"permission", "denied">>) \/ has(<<"access", "denied">>) \/ has(<<"eperm">>)
        THEN [type |-> "permission_denied", retryable |-> FALSE]
        ELSE IF has(<<"not", "found">>) \/ has(<<"command", "not", "found">>) \/ has(<<"enoent">>)
        THEN [type |-> "tool_not_found", retryable |-> FALSE]
        ELSE IF has(<<"timeout">>) \/ has(<<"etimedout">>) \/ has(<<"timed", "out">>)
        THEN [type |-> "timeout_error", retryable |-> TRUE]
        ELSE IF has(<<"rate", "limit">>) \/ has(<<"429">>) \/ has(<<"too", "many", "requests">>)
        THEN [type |-> "rate_limit", retryable |-> TRUE]
        ELSE IF has(<<"500">>) \/ has(<<"502">>) \/ has(<<"503">>)
            \/ has(<<"temporary">>) \/ has(<<"transient">>)
        THEN [type |-> "transient_error", retryable |-> TRUE]
        ELSE IF has(<<"agent">>) \/ has(<<"claude">>) \/ has(<<"anthropic">>)
        THEN [type |-> "agent_error", retryable |-> TRUE]
        ELSE IF has(<<"validation">>) \/ has(<<"deliverable">>) \/ has(<<"expected", "output">>)
        THEN [type |-> "validation_error", retryable |-> FALSE]
        ELSE [type |-> "unknown_error", retryable |-> TRUE]

\* Faults the task callable (executeAgent) raises in the model.
TaskFaults ==
    {Err(<<"connect", "ECONNREFUSED">>), Err(<<"401", "unauthorized", "invalid", "api", "key">>)}

\* Faults a file-system call of the audit store or the validator raises.
IoFaults ==
    {Err(<<"ENOSPC", "no", "space", "left", "on", "device">>),
     Err(<<"EACCES", "permission", "denied">>)}

\* ------------------------------------------------------ activity wrapper
\* What the collaborators of one attempt of executeAgentActivity do: for each
\* call that can throw, the Error it throws (NoError: it returns), the cost the
\* task callable reports and the files validateDeliverables finds.
Calm ==
    [newAuditSession |-> NoError,
     logAgentStart |-> NoError,
     executeAgent |-> [error |-> NoError, cost |-> 0],
     validateDeliverables |-> [error |-> NoError, found |-> {}],
     logAgentComplete |-> NoError,
     logAgentError |-> NoError]

\* The costs a task run reports in the model: nothing, or the largest cost.
Costs == {0, MaxCost}

\* Every behaviour of the collaborators, one per path through the attempt (a
\* call that is not reached stays as in Calm).
Behaviours(agent) ==
    {[Calm EXCEPT !.newAuditSession = f] : f \in IoFaults}
    \cup {[Calm EXCEPT !.logAgentStart = f, !.logAgentError = g] :
            f \in IoFaults, g \in IoFaults \cup {NoError}}
    \cup {[Calm EXCEPT !.executeAgent.error = f, !.logAgentError = g] :
            f \in TaskFaults, g \in IoFaults \cup {NoError}}
    \cup {[Calm EXCEPT !.executeAgent.cost = c, !.validateDeliverables.error = f,
                       !.logAgentError = g] :
            c \in Costs, f \in IoFaults, g \in IoFaults \cup {NoError}}
    \cup {[Calm EXCEPT !.executeAgent.cost = c, !.validateDeliverables.found = s,
                       !.logAgentComplete = f] :
            c \in Costs, s \in SUBSET AGENT_VALIDATORS(agent), f \in {NoError}}
    \cup {[Calm EXCEPT !.executeAgent.cost = c, !.validateDeliverables.found = s,
                       !.logAgentComplete = f, !.logAgentError = g] :
            c \in Costs, s \in SUBSET AGENT_VALIDATORS(agent), f \in IoFaults,
            g \in IoFaults \cup {NoError}}

MAX_ERROR_LENGTH == 5000

\* Characters of a message: its words and the blanks between them.
RECURSIVE CharLen(_)
CharLen(words) ==
    IF words = <<>> THEN 0
    ELSE Len(Head(words)) + (IF Len(words) > 1 THEN 1 ELSE 0) + CharLen(Tail(words))

\* message.slice(0, n); a message longer than n is cut at the last word that fits.
RECURSIVE slice(_, _)
slice(words, n) ==
    IF CharLen(words) <= n THEN words
    ELSE slice(SubSeq(words, 1, Len(words) - 1), n)

NoMetrics == [agent |-> "none", cost |-> 0, attempts |-> 0, success |-> FALSE, error |-> <<>>]

NoResult ==
    [agent |-> "none", success |-> FALSE, metrics |-> NoMetrics, deliverables |-> {},
     error |-> <<>>]

\* One attempt of executeAgentActivity under behaviour b: whether it raises
\* (and what), the AgentActivityResult it returns otherwise, and the calls it
\* made, in order.
executeAgentActivity(agent, b) ==
    LET startOk == b.logAgentStart = NoError
        execOk == startOk /\ b.executeAgent.error = NoError
        validOk == execOk /\ b.validateDeliverables.error = NoError
        completeOk == validOk /\ b.logAgentComplete = NoError
        tryCalls ==
            <<"logAgentStart">>
            \o (IF startOk THEN <<"createCheckpoint", "executeAgent">> ELSE <<>>)
            \o (IF execOk THEN <<"validateDeliverables">> ELSE <<>>)
            \o (IF validOk THEN <<"commitCheckpoint", "logAgentComplete">> ELSE <<>>)
        error ==
            IF ~startOk THEN b.logAgentStart
            ELSE IF ~execOk THEN b.executeAgent.error
            ELSE IF ~validOk THEN b.validateDeliverables.error
            ELSE b.logAgentComplete
        classified == classifyError(error)
        catchCalls == <<"rollbackCheckpoint", "logAgentError">>
        okMetrics ==
            [agent |-> agent, cost |-> b.executeAgent.cost, attempts |-> 1,
             success |-> TRUE, error |-> <<>>]
        failMetrics ==
            [agent |-> agent, cost |-> 0, attempts |-> 1, success |-> FALSE,
             error |-> slice(error.message, MAX_ERROR_LENGTH)]
    IN  IF b.newAuditSession # NoError
        THEN [raised |-> TRUE, error |-> b.newAuditSession, result |-> NoResult,
              calls |-> <<>>]
        ELSE IF completeOk
        THEN [raised |-> FALSE, error |-> NoError,
              result |-> [agent |-> agent, success |-> TRUE, metrics |-> okMetrics,
                          deliverables |-> b.validateDeliverables.found,
                          error |-> <<>>],
              calls |-> <<"setInterval">> \o tryCalls \o <<"clearInterval">>]
        ELSE IF b.logAgentError # NoError
        THEN [raised |-> TRUE, error |-> b.logAgentError, result |-> NoResult,
              calls |-> <<"setInterval">> \o tryCalls \o catchCalls \o <<"clearInterval">>]
        ELSE IF classified.retryable
        THEN [raised |-> TRUE, error |-> error, result |-> NoResult,
              calls |-> <<"setInterval">> \o tryCalls \o catchCalls \o <<"clearInterval">>]
        ELSE [raised |-> FALSE, error |-> NoError,
              result |-> [agent |-> agent, success |-> FALSE, metrics |-> failMetrics,
                          deliverables |-> {},
                          error |-> slice(error.message, MAX_ERROR_LENGTH)],
              calls |-> <<"setInterval">> \o tryCalls \o catchCalls \o <<"clearInterval">>]

\* ------------------------------------------------------ host scheduler
\* One attempt of the activity of an agent, as the worker runs it: an activity
\* type the worker has not registered fails without running anything.
NotRegistered == [name |-> "NotFoundError", message |-> <<"Activity", "function", "is", "not", "registered", "on", "this", "Worker">>]

Attempt(agent, b) ==
    IF agent \in RegisteredAgents THEN executeAgentActivity(agent, b)
    ELSE [raised |-> TRUE, error |-> NotRegistered, result |-> NoResult, calls |-> <<>>]

\* The retry policy of proxyActivities: an attempt that raised is retried while
\* attempts are left (no error of the model has a type listed in
\* nonRetryableErrorTypes: they are plain Errors).
hostRetries(n, outcome) == outcome.raised /\ n < maximumAttempts

\* The activity call as the workflow sees it: the outcome of the first attempt
\* the host does not retry, attempts[n] being the outcome of attempt n.
RECURSIVE runActivity(_, _)
runActivity(attempts, n) ==
    IF hostRetries(n, attempts[n]) THEN runActivity(attempts, n + 1)
    ELSE attempts[n]

\* The pipeline is explored with a healthy file system: the audit store and
\* the validator do not throw (SpecActivity explores those paths); the task
\* callable returns or raises.
PipelineBehaviours(agent) ==
    {b \in Behaviours(agent) :
        /\ b.newAuditSession = NoError
        /\ b.logAgentStart = NoError
        /\ b.validateDeliverables.error = NoError
        /\ b.logAgentComplete = NoError
        /\ b.logAgentError = NoError}

\* What an attempt of each agent's activity can come to, with what the task
\* callable raised in it.
PipelineAttempts ==
    [a \in Agents |->
        {[fault |-> b.executeAgent.error,
          raised |-> Attempt(a, b).raised,
          result |-> Attempt(a, b).result] : b \in PipelineBehaviours(a)}]

\* What the call of each agent's activity can settle with.
PipelineOutcomes ==
    [a \in Agents |->
        {runActivity(attempts, 1) : attempts \in [1..maximumAttempts -> PipelineAttempts[a]]}]

\* preReconToolScanActivity and assembleReportActivity: an attempt returns or
\* raises.
ToolAttempts == {[raised |-> FALSE, error |-> NoError]} \cup {[raised |-> TRUE, error |-> f] : f \in IoFaults}

ToolOutcomes == {runActivity(attempts, 1) : attempts \in [1..maximumAttempts -> ToolAttempts]}

\* ------------------------------------------------------------- workflow
VARIABLES
    state,      \* the PipelineState of pentestPipelineWorkflow
    wfPc,       \* the activity the workflow body awaits ("pipelined": the runners)
    runner,     \* per domain: the await runVulnExploitPipeline is suspended at
    vulnResult, \* per domain: the runner's vulnResult
    reason,     \* per domain: what the runner's promise rejected with
    caught,     \* err of the workflow's catch block
    failure,    \* what the workflow function threw
    invoked,    \* host scheduler: the activities scheduled so far
    lastFault   \* per sequential agent: what executeAgent raised in the attempt that settled the activity

wfVars == <<state, wfPc, runner, vulnResult, reason, caught, failure, invoked, lastFault>>

VARIABLES
    activity    \* host scheduler and worker: one activity call, attempt by attempt
                \* (raised: the Error each attempt so far failed with)

actVars == <<activity>>

VARIABLES
    files,      \* the session directory: path -> file (NoFile: no such file)
    trackers,   \* worker memory: this.metrics of the MetricsTracker of each running attempt
    runs,       \* host scheduler: per tracked agent, its activity call
    pid,        \* the worker process (a crash ends it, the next one has the next pid)
    atRestart   \* session.json as the last worker process left it when it died

fsVars == <<files, trackers, runs, pid, atRestart>>

VARIABLES
    hb          \* worker: the heartbeat timer and the event loop during one attempt

hbVars == <<hb>>

VARIABLES
    classification  \* caller of classifyError: the Error classified and what was returned

clVars == <<classification>>

VARIABLES
    progress    \* client: the PipelineProgress the last getProgress query returned

qVars == <<progress>>

VARIABLES
    mutex,      \* the SessionMutex: locked and queue (the waiters' resolve functions)
    callerPc,   \* per caller of withLock: where it is
    issued,     \* the calls of acquire(), in call order (handoff: made while a
                \* waiter release() has woken has not run yet)
    grants      \* the callers whose acquire() promise resolved, in that order

mxVars == <<mutex, callerPc, issued, grants>>

VARIABLES
    repo,       \* the session's output directory: work tree, git index and the commits reachable from HEAD
    gitTask,    \* per task sharing the directory: where its attempt is
    rolledBack  \* the last rollbackCheckpoint: the directory before and after it

gitVars == <<repo, gitTask, rolledBack>>

Activities == Agents \cup ToolActivities

\* What the workflow sees when an activity has failed for good.
ActivityFailure(activityType) ==
    [name |-> "ActivityFailure", message |-> <<"Activity", "task", "failed">>,
     activityType |-> activityType]

\* String(err) of an Error.
ErrorToString(err) == <<err.name \o ":">> \o err.message

Without(list, a) == SelectSeq(list, LAMBDA x : x # a)

Range(list) == {list[i] : i \in 1..Len(list)}

pushEvent(st, agent, event) ==
    [st EXCEPT !.agentEvents = Append(@, [agent |-> agent, event |-> event]),
               !.activeAgents = IF event = "started" THEN Append(@, agent)
                                ELSE Without(@, agent)]

\* Variant of pushCompletionEvent that appends the terminal event before a
\* started event of the agent.
pushCompletionEventThenStarted(st, result) ==
    [st EXCEPT !.agentEvents =
                   Append(Append(@, [agent |-> result.agent,
                                     event |-> IF result.success THEN "completed" ELSE "failed",
                                     cost |-> result.metrics.cost]),
                          [agent |-> result.agent, event |-> "started"]),
               !.activeAgents = Without(@, result.agent)]

\* Variant of pushCompletionEvent that leaves the agent in activeAgents.
pushCompletionEventKeepsActive(st, result) ==
    [st EXCEPT !.agentEvents =
                   Append(@, [agent |-> result.agent,
                              event |-> IF result.success THEN "completed" ELSE "failed",
                              cost |-> result.metrics.cost])]

pushCompletionEvent(st, result) ==
    [st EXCEPT !.agentEvents =
                   Append(@, [agent |-> result.agent,
                              event |-> IF result.success THEN "completed" ELSE "failed",
                              cost |-> result.metrics.cost]),
               !.activeAgents = Without(@, result.agent)]

\* Variant of recordResult that does not accumulate the cost.
recordResultWithoutCost(st, result) ==
    LET st1 == [st EXCEPT !.metrics = Append(@, result.metrics)]
    IN  IF result.success
        THEN [st1 EXCEPT !.completedAgents = Append(@, result.agent)]
        ELSE [st1 EXCEPT !.failedAgents = Append(@, result.agent)]

recordResult(st, result) ==
    LET st1 == [st EXCEPT !.metrics = Append(@, result.metrics),
                          !.totalCost = @ + result.metrics.cost]
    IN  IF result.success
        THEN [st1 EXCEPT !.completedAgents = Append(@, result.agent)]
        ELSE [st1 EXCEPT !.failedAgents = Append(@, result.agent),
                         !.errors = IF result.error # <<>>
                                    THEN Append(@, <<"[" \o result.agent \o "]">> \o result.error)
                                    ELSE @]

\* The workflow function has thrown nothing.
NoFailure == [name |-> "", nonRetryable |-> FALSE, message |-> <<>>]

InitWorkflow ==
    /\ state = [currentPhase |-> "Initializing", currentAgent |-> "null",
                activeAgents |-> <<>>, completedAgents |-> <<>>, failedAgents |-> <<>>,
                skippedAgents |-> <<>>, agentEvents |-> <<>>, metrics |-> <<>>,
                totalCost |-> 0, status |-> "running", errors |-> <<>>]
    /\ wfPc = "start"
    /\ runner = [d \in Domains |-> "idle"]
    /\ vulnResult = [d \in Domains |-> NoResult]
    /\ reason = [d \in Domains |-> NoError]
    /\ caught = NoError
    /\ failure = NoFailure
    /\ invoked = {}
    /\ lastFault = [a \in SequentialAgents |-> NoError]

\* Phase 1 up to the first await.
StartWorkflow ==
    /\ wfPc = "start"
    /\ state' = pushEvent([state EXCEPT !.currentPhase = "Pre-Reconnaissance",
                                        !.currentAgent = "pre-recon"],
                          "pre-recon", "started")
    /\ invoked' = invoked \cup {"preReconToolScanActivity"}
    /\ wfPc' = "preReconToolScanActivity"
    /\ UNCHANGED <<runner, vulnResult, reason, caught, failure, lastFault, actVars, fsVars, hbVars, clVars, qVars, mxVars, gitVars>>

PreReconToolScanReturns ==
    /\ wfPc = "preReconToolScanActivity"
    /\ \E o \in ToolOutcomes : ~o.raised
    /\ invoked' = invoked \cup {"pre-recon"}
    /\ wfPc' = "pre-recon"
    /\ UNCHANGED <<state, runner, vulnResult, reason, caught, failure, lastFault, actVars, fsVars, hbVars, clVars, qVars, mxVars, gitVars>>

PreReconReturns ==
    /\ wfPc = "pre-recon"
    /\ \E o \in PipelineOutcomes["pre-recon"] :
        LET st1 == pushCompletionEvent(recordResult(state, o.result), o.result)
        IN  /\ ~o.raised
            /\ state' = pushEvent([st1 EXCEPT !.currentPhase = "Reconnaissance",
                                              !.currentAgent = "recon"],
                                  "recon", "started")
            /\ lastFault' = [lastFault EXCEPT !["pre-recon"] = o.fault]
    /\ invoked' = invoked \cup {"recon"}
    /\ wfPc' = "recon"
    /\ UNCHANGED <<runner, vulnResult, reason, caught, failure, actVars, fsVars, hbVars, clVars, qVars, mxVars, gitVars>>

\* Variant of launch in which the started event of each vuln agent is pushed
\* twice.
RECURSIVE launchStartsTwice(_, _)
launchStartsTwice(st, i) ==
    IF i > NumDomains THEN st
    ELSE launchStartsTwice(
             pushEvent(pushEvent([st EXCEPT !.currentAgent = vulnAgent(LaunchOrder[i])],
                                 vulnAgent(LaunchOrder[i]), "started"),
                       vulnAgent(LaunchOrder[i]), "started"),
             i + 1)

\* The synchronous part of the runners, in launch order: each runs up to its
\* first await.
RECURSIVE launch(_, _)
launch(st, i) ==
    IF i > NumDomains THEN st
    ELSE launch(pushEvent([st EXCEPT !.currentAgent = vulnAgent(LaunchOrder[i])],
                          vulnAgent(LaunchOrder[i]), "started"),
                i + 1)

ReconReturns ==
    /\ wfPc = "recon"
    /\ \E o \in PipelineOutcomes["recon"] :
        LET st1 == pushCompletionEvent(recordResult(state, o.result), o.result)
        IN  /\ ~o.raised
            /\ state' = launch([st1 EXCEPT !.currentPhase = "Vulnerability Analysis & Exploitation"], 1)
            /\ lastFault' = [lastFault EXCEPT !["recon"] = o.fault]
    /\ invoked' = invoked \cup {vulnAgent(d) : d \in Domains}
    /\ runner' = [d \in Domains |-> "vuln"]
    /\ wfPc' = "pipelined"
    /\ UNCHANGED <<vulnResult, reason, caught, failure, actVars, fsVars, hbVars, clVars, qVars, mxVars, gitVars>>

\* Variant of skipExploit that never skips.
skipExploitNever(result) == FALSE

\* Variant of skipExploit that skips on a failed outcome only.
skipExploitOnFailureOnly(result) == ~result.success

\* Line 331: the runner skips exploitation.
skipExploit(result) == ~result.success \/ result.deliverables = {}

\* Variant of AllSettled that holds as soon as one runner has settled.
AnySettled(rn) == \E d \in Domains : rn[d] \in {"fulfilled", "rejected"}

\* Variant of AllSettled that waits for every runner to fulfil.
AllFulfilled(rn) == \A d \in Domains : rn[d] = "fulfilled"

AllSettled(rn) == \A d \in Domains : rn[d] \in {"fulfilled", "rejected"}

\* Lines 260-264: the rejected runners, in launch order.
RECURSIVE recordRejections(_, _, _)
recordRejections(st, rs, i) ==
    IF i > NumDomains THEN st
    ELSE recordRejections(
             IF rs[LaunchOrder[i]] # NoError
             THEN [st EXCEPT !.errors = Append(@, <<"Pipeline", "error:">>
                                                   \o ErrorToString(rs[LaunchOrder[i]]))]
             ELSE st,
             rs, i + 1)

\* Lines 260-273: what the workflow body does once Promise.allSettled resolves.
startReport(st, rs) ==
    pushEvent([recordRejections(st, rs, 1) EXCEPT !.currentPhase = "Reporting",
                                                  !.currentAgent = "report"],
              "report", "started")

\* Variant of RunnerStep in which a runner that rejects takes the runners
\* still suspended down with it.
RunnerStepAbortsSiblings(d, st, pc, rs, inv) ==
    /\ runner' = [x \in Domains |->
                    IF x = d \/ (pc = "rejected" /\ runner[x] \in {"vuln", "exploit"})
                    THEN pc ELSE runner[x]]
    /\ reason' = rs
    /\ IF AllSettled(runner')
       THEN /\ state' = startReport(st, rs)
            /\ invoked' = inv \cup {"report"}
            /\ wfPc' = "report"
       ELSE /\ state' = st
            /\ invoked' = inv
            /\ wfPc' = wfPc

\* A step of the runner of domain d; the runner that settles last resumes the
\* workflow body in the same activation.
RunnerStep(d, st, pc, rs, inv) ==
    /\ runner' = [runner EXCEPT ![d] = pc]
    /\ reason' = rs
    /\ IF AllSettled([runner EXCEPT ![d] = pc])
       THEN /\ state' = startReport(st, rs)
            /\ invoked' = inv \cup {"report"}
            /\ wfPc' = "report"
       ELSE /\ state' = st
            /\ invoked' = inv
            /\ wfPc' = wfPc

VulnReturns(d) ==
    /\ runner[d] = "vuln"
    /\ \E o \in PipelineOutcomes[vulnAgent(d)] :
        LET st1 == pushCompletionEvent(recordResult(state, o.result), o.result)
        IN  /\ ~o.raised
            /\ vulnResult' = [vulnResult EXCEPT ![d] = o.result]
            /\ IF skipExploit(o.result)
               THEN RunnerStep(d,
                        pushEvent([st1 EXCEPT !.skippedAgents = Append(@, exploitAgent(d))],
                                  exploitAgent(d), "skipped"),
                        "fulfilled", reason, invoked)
               ELSE RunnerStep(d,
                        pushEvent([st1 EXCEPT !.currentAgent = exploitAgent(d)],
                                  exploitAgent(d), "started"),
                        "exploit", reason, invoked \cup {exploitAgent(d)})
    /\ UNCHANGED <<caught, failure, lastFault, actVars, fsVars, hbVars, clVars, qVars, mxVars, gitVars>>

\* The await of the runner throws: runVulnExploitPipeline has no catch, its
\* promise rejects.
VulnRaises(d) ==
    /\ runner[d] = "vuln"
    /\ \E o \in PipelineOutcomes[vulnAgent(d)] : o.raised
    /\ RunnerStep(d, state, "rejected",
                  [reason EXCEPT ![d] = ActivityFailure(vulnAgent(d))], invoked)
    /\ UNCHANGED <<vulnResult, caught, failure, lastFault, actVars, fsVars, hbVars, clVars, qVars, mxVars, gitVars>>

ExploitReturns(d) ==
    /\ runner[d] = "exploit"
    /\ \E o \in PipelineOutcomes[exploitAgent(d)] :
            /\ ~o.raised
            /\ RunnerStep(d, pushCompletionEvent(recordResult(state, o.result), o.result),
                          "fulfilled", reason, invoked)
    /\ UNCHANGED <<vulnResult, caught, failure, lastFault, actVars, fsVars, hbVars, clVars, qVars, mxVars, gitVars>>

ExploitRaises(d) ==
    /\ runner[d] = "exploit"
    /\ \E o \in PipelineOutcomes[exploitAgent(d)] : o.raised
    /\ RunnerStep(d, state, "rejected",
                  [reason EXCEPT ![d] = ActivityFailure(exploitAgent(d))], invoked)
    /\ UNCHANGED <<vulnResult, caught, failure, lastFault, actVars, fsVars, hbVars, clVars, qVars, mxVars, gitVars>>

ReportReturns ==
    /\ wfPc = "report"
    /\ \E o \in PipelineOutcomes["report"] :
            /\ ~o.raised
            /\ state' = pushCompletionEvent(recordResult(state, o.result), o.result)
            /\ lastFault' = [lastFault EXCEPT !["report"] = o.fault]
    /\ invoked' = invoked \cup {"assembleReportActivity"}
    /\ wfPc' = "assembleReportActivity"
    /\ UNCHANGED <<runner, vulnResult, reason, caught, failure, actVars, fsVars, hbVars, clVars, qVars, mxVars, gitVars>>

\* Variant of terminalStatus that reports failed agents as a failed pipeline.
terminalStatusFailsOnFailedAgents(st) ==
    IF Len(st.failedAgents) > 0 THEN "failed" ELSE "completed"

\* Line 291.
terminalStatus(st) == IF Len(st.failedAgents) > 0 THEN "completed" ELSE "completed"

AssembleReportReturns ==
    /\ wfPc = "assembleReportActivity"
    /\ \E o \in ToolOutcomes : ~o.raised
    /\ state' = [state EXCEPT !.status = terminalStatus(state),
                              !.currentPhase = "Complete",
                              !.currentAgent = "null"]
    /\ wfPc' = "returned"
    /\ UNCHANGED <<runner, vulnResult, reason, caught, failure, invoked, lastFault, actVars, fsVars, hbVars, clVars, qVars, mxVars, gitVars>>

\* Variant of workflowThrow that throws a failure the host may retry.
workflowThrowRetryable(err) ==
    [name |-> "ApplicationFailure", nonRetryable |-> FALSE,
     message |-> <<"Pipeline", "failed:">> \o err.message]

\* Lines 301-303: ApplicationFailure.nonRetryable(`Pipeline failed: ${err.message}`).
workflowThrow(err) ==
    [name |-> "ApplicationFailure", nonRetryable |-> TRUE,
     message |-> <<"Pipeline", "failed:">> \o err.message]

\* Variant of workflowCatch that leaves the status alone.
workflowCatchKeepsStatus(st, err) == [st EXCEPT !.errors = Append(@, err.message)]

\* Lines 297-304: an await of the workflow body throws.
workflowCatch(st, err) ==
    [st EXCEPT !.status = "failed", !.errors = Append(@, err.message)]

\* Variant of exitCode that counts skipped agents as failures.
exitCodeCountsSkipped(pc, st) ==
    IF pc = "thrown" THEN 1
    ELSE IF Len(st.failedAgents) > 0 \/ Len(st.skippedAgents) > 0 THEN 1 ELSE 0

\* client.ts main, lines 264-274: the exit code of the client once the
\* workflow has returned its state (pc "returned") or has thrown (pc "thrown").
exitCode(pc, st) ==
    IF pc = "thrown" THEN 1
    ELSE IF Len(st.failedAgents) > 0 THEN 1 ELSE 0

SequentialAgentRaises(a) ==
    /\ wfPc = a
    /\ \E o \in PipelineOutcomes[a] :
            /\ o.raised
            /\ lastFault' = [lastFault EXCEPT ![a] = o.fault]
    /\ state' = workflowCatch(state, ActivityFailure(a))
    /\ caught' = ActivityFailure(a)
    /\ failure' = workflowThrow(ActivityFailure(a))
    /\ wfPc' = "thrown"
    /\ UNCHANGED <<runner, vulnResult, reason, invoked, actVars, fsVars, hbVars, clVars, qVars, mxVars, gitVars>>

ToolActivityRaises(a) ==
    /\ wfPc = a
    /\ \E o \in ToolOutcomes : o.raised
    /\ state' = workflowCatch(state, ActivityFailure(a))
    /\ caught' = ActivityFailure(a)
    /\ failure' = workflowThrow(ActivityFailure(a))
    /\ wfPc' = "thrown"
    /\ UNCHANGED <<runner, vulnResult, reason, invoked, lastFault, actVars, fsVars, hbVars, clVars, qVars, mxVars, gitVars>>

NextWorkflow ==
    \/ StartWorkflow
    \/ PreReconToolScanReturns
    \/ PreReconReturns
    \/ ReconReturns
    \/ \E d \in Domains : VulnReturns(d)
    \/ \E d \in Domains : VulnRaises(d)
    \/ \E d \in Domains : ExploitReturns(d)
    \/ \E d \in Domains : ExploitRaises(d)
    \/ ReportReturns
    \/ AssembleReportReturns
    \/ \E a \in SequentialAgents : SequentialAgentRaises(a)
    \/ \E a \in ToolActivities : ToolActivityRaises(a)
\* ------------------------------------------------------ activity attempts
\* SpecActivity: the host runs one activity call, attempt by attempt, under
\* every behaviour of the collaborators.
ActivityAgents == Agents \cup {"rdp-vuln"}

NoAttempt == [b |-> Calm, outcome |-> [raised |-> FALSE, error |-> NoError, result |-> NoResult, calls |-> <<>>]]

InitActivity ==
    activity = [agent |-> "none", status |-> "idle", attempt |-> 0, last |-> NoAttempt,
                raised |-> <<>>]

ScheduleActivity(a) ==
    /\ activity.status = "idle"
    /\ activity' = [activity EXCEPT !.agent = a, !.status = "scheduled", !.attempt = 1]
    /\ UNCHANGED <<wfVars, fsVars, hbVars, clVars, qVars, mxVars, gitVars>>

\* An attempt raises and the host schedules the next one.
AttemptRetried ==
    /\ activity.status = "scheduled"
    /\ \E b \in Behaviours(activity.agent) :
        LET o == Attempt(activity.agent, b)
        IN  /\ hostRetries(activity.attempt, o)
            /\ activity' = [activity EXCEPT !.attempt = @ + 1,
                                            !.last = [b |-> b, outcome |-> o],
                                            !.raised = Append(@, o.error)]
    /\ UNCHANGED <<wfVars, fsVars, hbVars, clVars, qVars, mxVars, gitVars>>

\* An attempt settles the call: it returns, or raises with no attempt left.
AttemptSettles ==
    /\ activity.status = "scheduled"
    /\ \E b \in Behaviours(activity.agent) :
        LET o == Attempt(activity.agent, b)
        IN  /\ ~hostRetries(activity.attempt, o)
            /\ activity' = [activity EXCEPT !.status = IF o.raised THEN "failed" ELSE "returned",
                                            !.last = [b |-> b, outcome |-> o],
                                            !.raised = IF o.raised THEN Append(@, o.error) ELSE @]
    /\ UNCHANGED <<wfVars, fsVars, hbVars, clVars, qVars, mxVars, gitVars>>

NextActivity ==
    \/ \E a \in ActivityAgents : ScheduleActivity(a)
    \/ AttemptRetried
    \/ AttemptSettles

\* ------------------------------------------------------------ session.json
\* SpecMetrics: the trackers of concurrently running attempts, the
\* session.json they all persist into, and crashes of the worker process.
TrackedAgents == {exploitAgent("ssh"), exploitAgent("privesc")}

SessionJson == "session.json"
tmpPath(filePath, p) == filePath \o ".tmp." \o ToString(p)
Paths == {SessionJson} \cup {tmpPath(SessionJson, p) : p \in 0..MaxCrashes}

\* A file holds a whole text, or is torn: the beginning of a text whose
\* write did not finish.
NoFile == [exists |-> FALSE]
FileOf(text) == [exists |-> TRUE, whole |-> TRUE, text |-> text]
Torn == [exists |-> TRUE, whole |-> FALSE]
whole(file) == file.exists /\ file.whole

\* JSON.stringify(metrics, null, 2) and JSON.parse of a whole text.
stringify(metrics) == [json |-> metrics]
parse(text) == text.json

\* What can become of one atomicWrite call: it returns, writeFileSync or
\* renameSync throws, or the process dies before, in or after writeFileSync.
Fates == {"ok", "throws", "diesBeforeWrite", "diesInWrite", "diesBeforeRename"}

\* Variant of atomicWrite that writes the text into the target itself.
atomicWriteInPlace(fs, filePath, content, p, fate) ==
    [fs |-> IF fate = "diesBeforeWrite" THEN fs
            ELSE [fs EXCEPT ![filePath] = IF fate \in {"throws", "diesInWrite"} THEN Torn
                                         ELSE FileOf(content)],
     threw |-> fate = "throws",
     crashed |-> fate \in {"diesBeforeWrite", "diesInWrite", "diesBeforeRename"}]

\* atomicWrite(filePath, content) in process p: the text goes to the
\* temporary file, which is then renamed over the target; a failure of either
\* call unlinks the temporary file and is raised again.
atomicWrite(fs, filePath, content, p, fate) ==
    LET tmp == tmpPath(filePath, p)
    IN  IF fate = "ok"
        THEN [fs |-> [fs EXCEPT ![tmp] = NoFile, ![filePath] = FileOf(content)],
              threw |-> FALSE, crashed |-> FALSE]
        ELSE IF fate = "throws"
        THEN [fs |-> [fs EXCEPT ![tmp] = NoFile], threw |-> TRUE, crashed |-> FALSE]
        ELSE [fs |-> IF fate = "diesBeforeWrite" THEN fs
                     ELSE [fs EXCEPT ![tmp] = IF fate = "diesInWrite" THEN Torn
                                              ELSE FileOf(content)],
              threw |-> FALSE, crashed |-> TRUE]

NoEntry == [attempts |-> 0, status |-> "absent"]
EmptyMetrics == [agents |-> [a \in TrackedAgents |-> NoEntry], totalCost |-> 0]

persist(metrics, fs, p, fate) == atomicWrite(fs, SessionJson, stringify(metrics), p, fate)

\* Variant of newMetricsTracker that starts from a fresh snapshot whatever is
\* on file.
newMetricsTrackerFresh(fs, p, fate) ==
    LET w == persist(EmptyMetrics, fs, p, fate)
    IN  [metrics |-> EmptyMetrics, fs |-> w.fs, threw |-> w.threw, crashed |-> w.crashed]

\* new MetricsTracker: the snapshot on file if there is one, a fresh snapshot
\* that is persisted at once otherwise.
newMetricsTracker(fs, p, fate) ==
    IF fs[SessionJson].exists
    THEN IF whole(fs[SessionJson])
         THEN [metrics |-> parse(fs[SessionJson].text), fs |-> fs,
               threw |-> FALSE, crashed |-> FALSE]
         ELSE [metrics |-> EmptyMetrics, fs |-> fs, threw |-> TRUE, crashed |-> FALSE]
    ELSE LET w == persist(EmptyMetrics, fs, p, fate)
         IN  [metrics |-> EmptyMetrics, fs |-> w.fs, threw |-> w.threw, crashed |-> w.crashed]

recordAgentStart(metrics, agentName) ==
    [metrics EXCEPT !.agents[agentName] =
        [attempts |-> metrics.agents[agentName].attempts + 1, status |-> "running"]]

recordAgentComplete(metrics, agentName, cost) ==
    [agents |-> IF metrics.agents[agentName] = NoEntry THEN metrics.agents
                ELSE [metrics.agents EXCEPT ![agentName] =
                        [attempts |-> @.attempts, status |-> "completed", cost |-> cost]],
     totalCost |-> metrics.totalCost + cost]

recordAgentError(metrics, agentName) ==
    IF metrics.agents[agentName] = NoEntry THEN metrics
    ELSE [metrics EXCEPT !.agents[agentName].status = "failed"]

\* allMetrics.reduce((sum, m) => sum + m.cost, 0)
RECURSIVE reduceCost(_, _, _)
reduceCost(allMetrics, i, sum) ==
    IF i > Len(allMetrics) THEN sum
    ELSE reduceCost(allMetrics, i + 1, sum + allMetrics[i].cost)

writeFinalSummary(metrics, allMetrics) ==
    [metrics EXCEPT !.totalCost = reduceCost(allMetrics, 1, 0)]

NoTracker == [live |-> FALSE]
NoRun == [status |-> "scheduled", attempt |-> 1, cost |-> 0]

InitMetrics ==
    /\ files = [f \in Paths |-> NoFile]
    /\ trackers = [a \in TrackedAgents |-> NoTracker]
    /\ runs = [a \in TrackedAgents |-> NoRun]
    /\ pid = 0
    /\ atRestart = NoFile

\* The host after an attempt of run r ended without a result.
afterAttempt(r, raised) ==
    IF hostRetries(r.attempt, [raised |-> raised])
    THEN [r EXCEPT !.status = "scheduled", !.attempt = @ + 1]
    ELSE [r EXCEPT !.status = "failed"]

\* How many attempts the host has started over so far.
RECURSIVE SumRetries(_, _)
SumRetries(rs, todo) ==
    IF todo = {} THEN 0
    ELSE LET a == CHOOSE x \in todo : TRUE
         IN  (rs[a].attempt - 1) + SumRetries(rs, todo \ {a})

Retries(rs) == SumRetries(rs, DOMAIN rs)

\* The worker process dies with the directory as fs: every tracker is gone,
\* and the host, missing the heartbeat of each attempt that was in progress,
\* starts it over while attempts are left.
Dies(fs, dying) ==
    /\ pid < MaxCrashes
    /\ Retries(runs) < MaxRetries
    /\ pid' = pid + 1
    /\ files' = fs
    /\ atRestart' = fs[SessionJson]
    /\ trackers' = [a \in TrackedAgents |-> NoTracker]
    /\ runs' = [a \in TrackedAgents |->
                  IF a \in dying \/ runs[a].status = "running"
                  THEN afterAttempt(runs[a], TRUE) ELSE runs[a]]

\* The attempt of agent a ends without a result, leaving the directory as fs:
\* it raised, or it returned a failed result.
Ends(a, fs) ==
    /\ files' = fs
    /\ trackers' = [trackers EXCEPT ![a] = NoTracker]
    /\ \E raised \in (IF Retries(runs) < MaxRetries THEN BOOLEAN ELSE {FALSE}) :
            runs' = [runs EXCEPT ![a] = afterAttempt(@, raised)]
    /\ pid' = pid
    /\ atRestart' = atRestart

\* An attempt starts: new AuditSession builds the tracker, logAgentStart
\* records the start; a failure there is logged by logAgentError.
BeginAttempt(a) ==
    /\ runs[a].status = "scheduled"
    /\ \E f1 \in (IF files[SessionJson].exists THEN {"ok"}
                  ELSE Fates) :
        LET c == newMetricsTracker(files, pid, f1)
            m1 == recordAgentStart(c.metrics, a)
        IN  \/ c.crashed /\ Dies(c.fs, {a})
            \/ c.threw /\ Ends(a, c.fs)
            \/ /\ ~c.crashed /\ ~c.threw
               /\ \E f2 \in Fates :
                    LET s == persist(m1, c.fs, pid, f2)
                    IN  \/ s.crashed /\ Dies(s.fs, {a})
                        \/ /\ s.threw
                           /\ \E f3 \in Fates :
                                LET e == persist(recordAgentError(m1, a), s.fs, pid, f3)
                                IN  IF e.crashed THEN Dies(e.fs, {a}) ELSE Ends(a, e.fs)
                        \/ /\ ~s.crashed /\ ~s.threw
                           /\ files' = s.fs
                           /\ trackers' = [trackers EXCEPT ![a] = [live |-> TRUE, metrics |-> m1]]
                           /\ runs' = [runs EXCEPT ![a].status = "running"]
                           /\ pid' = pid
                           /\ atRestart' = atRestart
    /\ UNCHANGED <<wfVars, actVars, hbVars, clVars, qVars, mxVars, gitVars>>

\* The task of a running attempt returns: logAgentComplete records it; a
\* failure there is logged by logAgentError.
CompleteAttempt(a) ==
    /\ runs[a].status = "running"
    /\ \E cost \in Costs, f1 \in Fates :
        LET m1 == recordAgentComplete(trackers[a].metrics, a, cost)
            w == persist(m1, files, pid, f1)
        IN  \/ w.crashed /\ Dies(w.fs, {a})
            \/ /\ w.threw
               /\ \E f2 \in Fates :
                    LET e == persist(recordAgentError(m1, a), w.fs, pid, f2)
                    IN  IF e.crashed THEN Dies(e.fs, {a}) ELSE Ends(a, e.fs)
            \/ /\ ~w.crashed /\ ~w.threw
               /\ files' = w.fs
               /\ trackers' = [trackers EXCEPT ![a] = NoTracker]
               /\ runs' = [runs EXCEPT ![a] = [@ EXCEPT !.status = "returned", !.cost = cost]]
               /\ pid' = pid
               /\ atRestart' = atRestart
    /\ UNCHANGED <<wfVars, actVars, hbVars, clVars, qVars, mxVars, gitVars>>

\* The task of a running attempt raises: logAgentError records it.
FailAttempt(a) ==
    /\ runs[a].status = "running"
    /\ \E f1 \in Fates :
        LET e == persist(recordAgentError(trackers[a].metrics, a), files, pid, f1)
        IN  IF e.crashed THEN Dies(e.fs, {a}) ELSE Ends(a, e.fs)
    /\ UNCHANGED <<wfVars, actVars, hbVars, clVars, qVars, mxVars, gitVars>>

\* The worker process dies between two calls.
Crash ==
    /\ Dies(files, {})
    /\ UNCHANGED <<wfVars, actVars, hbVars, clVars, qVars, mxVars, gitVars>>

NextMetrics ==
    \/ \E a \in TrackedAgents : BeginAttempt(a)
    \/ \E a \in TrackedAgents : CompleteAttempt(a)
    \/ \E a \in TrackedAgents : FailAttempt(a)
    \/ Crash

\* ------------------------------------------------------------ heartbeats
\* SpecHeartbeat: one attempt of an activity on the worker's event loop. Time
\* passes in ticks of HEARTBEAT_INTERVAL_MS; a timer callback runs only when
\* the event loop is free, that is, while the attempt is suspended in an await
\* of a call that does not block the thread.
ActivityTypes == {"executeAgentActivity", "preReconToolScanActivity", "assembleReportActivity"}

\* The external tools of runPreReconTools in the order their execSync runs,
\* with the timeout of each in milliseconds.
Tools ==
    <<[tool |-> "masscan", timeout |-> 300000], [tool |-> "ssh-audit", timeout |-> 120000],
      [tool |-> "subfinder", timeout |-> 300000], [tool |-> "testssl", timeout |-> 300000],
      [tool |-> "nmap", timeout |-> 600000], [tool |-> "nuclei", timeout |-> 900000],
      [tool |-> "lynis", timeout |-> 300000], [tool |-> "searchsploit", timeout |-> 120000]>>

ToolNames == {Tools[i].tool : i \in 1..Len(Tools)}

GitCalls == {"createCheckpoint", "commitCheckpoint", "rollbackCheckpoint"}

\* The calls of an attempt that block the thread (execSync).
Blocking(call) == call \in GitCalls \cup ToolNames

\* The longest a call can take, in ticks: each checkpoint call runs two git
\* commands; the task callable and assembleReport are bounded only by the
\* wait the model follows.
Duration(call) ==
    IF call \in GitCalls THEN 2 * (gitTimeout \div HEARTBEAT_INTERVAL_MS)
    ELSE IF call \in ToolNames
    THEN (CHOOSE t \in Range(Tools) : t.tool = call).timeout \div HEARTBEAT_INTERVAL_MS
    ELSE IF call \in {"executeAgent", "assembleReport"} THEN MaxWait
    ELSE 0

\* The calls of an attempt, in order.
AttemptCalls(activityType) ==
    IF activityType = "executeAgentActivity"
    THEN {executeAgentActivity("pre-recon", b).calls : b \in Behaviours("pre-recon")}
    ELSE IF activityType = "preReconToolScanActivity"
    THEN {<<"setInterval">> \o [i \in 1..Len(Tools) |-> Tools[i].tool] \o <<"clearInterval">>,
          <<"setInterval", "mkdirSync", "clearInterval">>}
    ELSE {<<"setInterval", "assembleReport", "clearInterval">>}

\* Variant of timerAfter in which the timer is never cleared.
timerAfterNeverCleared(call, timer) == IF call = "setInterval" THEN "armed" ELSE timer

\* The heartbeat timer after a call.
timerAfter(call, timer) ==
    IF call = "setInterval" THEN "armed"
    ELSE IF call = "clearInterval" THEN "cleared"
    ELSE timer

TimeoutTicks == heartbeatTimeout \div HEARTBEAT_INTERVAL_MS

InitHeartbeat ==
    hb = [activityType |-> "none", calls |-> <<>>, at |-> 0, busy |-> 0, timer |-> "unset",
          gap |-> 0, beats |-> FALSE, late |-> FALSE]

Exited == hb.activityType # "none" /\ hb.at > Len(hb.calls)

\* The worker starts an attempt.
HbStart(activityType) ==
    /\ hb.activityType = "none"
    /\ \E calls \in AttemptCalls(activityType) :
        hb' = [hb EXCEPT !.activityType = activityType, !.calls = calls, !.at = 1]
    /\ UNCHANGED <<wfVars, actVars, fsVars, clVars, qVars, mxVars, gitVars>>

\* The call the attempt is at ends, and the attempt goes on to the next.
HbCallEnds ==
    /\ hb.activityType # "none"
    /\ ~Exited
    /\ hb' = [hb EXCEPT !.timer = timerAfter(hb.calls[hb.at], @),
                        !.at = @ + 1,
                        !.busy = 0]
    /\ UNCHANGED <<wfVars, actVars, fsVars, clVars, qVars, mxVars, gitVars>>

\* One heartbeat interval passes: the callback of an armed timer runs if the
\* event loop is free, which it is not inside a blocking call.
HbTick ==
    /\ hb.activityType # "none"
    /\ IF Exited
       THEN hb' = IF hb.timer = "armed" THEN [hb EXCEPT !.late = TRUE, !.gap = 0] ELSE hb
       ELSE LET call == hb.calls[hb.at]
            IN  /\ hb.busy < Duration(call)
                /\ hb.busy < MaxWait
                /\ hb' = IF hb.timer = "armed" /\ ~Blocking(call)
                         THEN [hb EXCEPT !.busy = @ + 1, !.gap = 0, !.beats = TRUE]
                         ELSE [hb EXCEPT !.busy = @ + 1,
                                         !.gap = IF @ > TimeoutTicks THEN @ ELSE @ + 1]
    /\ UNCHANGED <<wfVars, actVars, fsVars, clVars, qVars, mxVars, gitVars>>

NextHeartbeat ==
    \/ \E activityType \in ActivityTypes : HbStart(activityType)
    \/ HbCallEnds
    \/ HbTick

\* ----------------------------------------------------------- classifier
\* The Errors handed to classifyError: name Error or ConfigError, the message
\* up to MaxParts phrases long. The phrases are the patterns of the table as
\* error texts spell them, and words no pattern has. No word of a phrase has a
\* pattern word inside it, so matching whole words is String.includes here.
MaxParts == 2

ErrorNames == {"Error", "ConfigError"}

Phrases ==
    {<<"api", "key">>, <<"Unauthorized">>, <<"authentication", "failed">>, <<"invalid", "api">>,
     <<"config">>, <<"schema", "validation">>,
     <<"ECONNREFUSED">>, <<"EHOSTUNREACH">>, <<"host", "unreachable">>,
     <<"no", "route", "to", "host">>,
     <<"SSH">>, <<"connection", "reset">>, <<"broken", "pipe">>,
     <<"Permission", "denied">>, <<"access", "denied">>, <<"EPERM">>,
     <<"not", "found">>, <<"command", "not", "found">>, <<"ENOENT">>,
     <<"timeout">>, <<"ETIMEDOUT">>, <<"timed", "out">>,
     <<"rate", "limit">>, <<"429">>, <<"too", "many", "requests">>,
     <<"500">>, <<"502">>, <<"503">>, <<"temporary">>, <<"transient">>,
     <<"agent">>, <<"claude">>, <<"anthropic">>,
     <<"validation">>, <<"deliverable">>, <<"expected", "output">>,
     <<"401">>, <<"connect">>, <<"invalid">>, <<"segfault">>}

RECURSIVE Join(_)
Join(parts) == IF parts = <<>> THEN <<>> ELSE Head(parts) \o Join(Tail(parts))

Messages ==
    UNION {{Join(parts) : parts \in [1..n -> Phrases]} : n \in 0..MaxParts}
    \cup {f.message : f \in TaskFaults \cup IoFaults}

Faults == {[name |-> n, message |-> m] : n \in ErrorNames, m \in Messages}

NoClassification == [type |-> "none", retryable |-> FALSE]

InitClassify ==
    classification = [error |-> NoError, calls |-> 0, result |-> NoClassification,
                      before |-> NoClassification]

\* classifyError is called on an Error.
Classify ==
    /\ classification.calls = 0
    /\ \E error \in Faults :
        classification' = [classification EXCEPT !.error = error, !.calls = 1,
                                                 !.result = classifyError(error)]
    /\ UNCHANGED <<wfVars, actVars, fsVars, hbVars, qVars, mxVars, gitVars>>

\* classifyError is called on the same Error once more.
ClassifyAgain ==
    /\ classification.calls = 1
    /\ classification' = [classification EXCEPT !.calls = 2,
                                                !.before = classification.result,
                                                !.result = classifyError(classification.error)]
    /\ UNCHANGED <<wfVars, actVars, fsVars, hbVars, qVars, mxVars, gitVars>>

NextClassify ==
    \/ Classify
    \/ ClassifyAgain

\* ------------------------------------------------------- progress query
\* An array of a PipelineProgress: a new array with the elements of a list
\* ([...list], ref "copy") or the array object of a field of the state itself
\* (ref "state").
CopyOf(list) == [ref |-> "copy", field |-> "", value |-> list]

SameAs(field) == [ref |-> "state", field |-> field, value |-> <<>>]

\* The elements a reader of the array sees when the state is st.
Read(array, st) == IF array.ref = "copy" THEN array.value ELSE st[array.field]

\* A handler that returns the arrays of the state themselves.
getProgressSharesArrays(st) ==
    [status |-> st.status,
     currentPhase |-> st.currentPhase,
     currentAgent |-> st.currentAgent,
     activeAgents |-> SameAs("activeAgents"),
     completedAgents |-> SameAs("completedAgents"),
     failedAgents |-> SameAs("failedAgents"),
     skippedAgents |-> SameAs("skippedAgents"),
     agentEvents |-> SameAs("agentEvents"),
     totalCost |-> st.totalCost,
     agentMetrics |-> SameAs("metrics"),
     errors |-> SameAs("errors")]

\* The handler of the getProgress query.
getProgress(st) ==
    [status |-> st.status,
     currentPhase |-> st.currentPhase,
     currentAgent |-> st.currentAgent,
     activeAgents |-> CopyOf(st.activeAgents),
     completedAgents |-> CopyOf(st.completedAgents),
     failedAgents |-> CopyOf(st.failedAgents),
     skippedAgents |-> CopyOf(st.skippedAgents),
     agentEvents |-> CopyOf(st.agentEvents),
     totalCost |-> st.totalCost,
     agentMetrics |-> CopyOf(st.metrics),
     errors |-> CopyOf(st.errors)]

InitProgress == progress = [asked |-> FALSE, answer |-> getProgress(state), at |-> state]

\* A client queries the workflow: the handler runs between two activations
\* of the workflow code.
GetProgress ==
    /\ progress' = [asked |-> TRUE, answer |-> getProgress(state), at |-> state]
    /\ UNCHANGED <<wfVars, actVars, fsVars, hbVars, clVars, mxVars, gitVars>>

NextProgress == NextWorkflow \/ GetProgress

\* ---------------------------------------------------------- SessionMutex
\* Callers of withLock on one SessionMutex; MaxAcquires bounds the calls of
\* acquire() in a run.
NumCallers == 3

MaxAcquires == 4

Callers == 1..NumCallers

\* An acquire() that takes a free mutex but queues in front of the waiters.
acquireInFront(m, c) ==
    IF ~m.locked
    THEN [mutex |-> [m EXCEPT !.locked = TRUE], resolved |-> TRUE]
    ELSE [mutex |-> [m EXCEPT !.queue = <<c>> \o @], resolved |-> FALSE]

\* acquire() up to its return: the promise it returns is resolved, or its
\* resolve function is queued.
acquire(m, c) ==
    IF ~m.locked
    THEN [mutex |-> [m EXCEPT !.locked = TRUE], resolved |-> TRUE]
    ELSE [mutex |-> [m EXCEPT !.queue = Append(@, c)], resolved |-> FALSE]

NoCaller == 0

\* A release() that unlocks the mutex also when it wakes a waiter.
releaseUnlocks(m) ==
    IF m.queue # <<>>
    THEN [mutex |-> [m EXCEPT !.queue = Tail(@), !.locked = FALSE], next |-> Head(m.queue)]
    ELSE [mutex |-> [m EXCEPT !.locked = FALSE], next |-> NoCaller]

\* A release() that takes the next waiter off the queue without calling it.
releaseForgetsWaiter(m) ==
    IF m.queue # <<>>
    THEN [mutex |-> [m EXCEPT !.queue = Tail(@)], next |-> NoCaller]
    ELSE [mutex |-> [m EXCEPT !.locked = FALSE], next |-> NoCaller]

\* release(): next is the waiter whose resolve function it calls.
release(m) ==
    IF m.queue # <<>>
    THEN [mutex |-> [m EXCEPT !.queue = Tail(@)], next |-> Head(m.queue)]
    ELSE [mutex |-> [m EXCEPT !.locked = FALSE], next |-> NoCaller]

InitMutex ==
    /\ mutex = [locked |-> FALSE, queue |-> <<>>]
    /\ callerPc = [c \in Callers |-> "idle"]
    /\ issued = <<>>
    /\ grants = <<>>

\* Where a caller is when it is in no withLock call: it has made none yet,
\* or the promise of its last one has fulfilled or rejected.
Outside == {"idle", "returned", "threw"}

\* withLock: the caller calls acquire() and suspends at the await.
CallAcquire(c) ==
    /\ callerPc[c] \in Outside
    /\ Len(issued) < MaxAcquires
    /\ LET r == acquire(mutex, c)
       IN  /\ mutex' = r.mutex
           /\ callerPc' = [callerPc EXCEPT ![c] = IF r.resolved THEN "resolved" ELSE "waiting"]
           /\ grants' = IF r.resolved THEN Append(grants, c) ELSE grants
    /\ issued' = Append(issued, [caller |-> c,
                                 handoff |-> \E x \in Callers : callerPc[x] = "woken"])
    /\ UNCHANGED <<wfVars, actVars, fsVars, hbVars, clVars, qVars, gitVars>>

\* The microtask of a resolved acquire() runs: the caller enters fn.
EnterFn(c) ==
    /\ callerPc[c] \in {"resolved", "woken"}
    /\ callerPc' = [callerPc EXCEPT ![c] = "fn"]
    /\ UNCHANGED <<mutex, issued, grants, wfVars, actVars, fsVars, hbVars, clVars, qVars, gitVars>>

\* fn returns or throws: the finally block of withLock calls release(), and
\* the promise of withLock settles as fn did.
CallRelease(c) ==
    /\ callerPc[c] = "fn"
    /\ \E settled \in {"returned", "threw"} :
       LET r == release(mutex)
       IN  /\ mutex' = r.mutex
           /\ callerPc' = [x \in Callers |->
                             IF x = c THEN settled
                             ELSE IF x = r.next THEN "woken"
                             ELSE callerPc[x]]
           /\ grants' = IF r.next # NoCaller THEN Append(grants, r.next) ELSE grants
    /\ UNCHANGED <<issued, wfVars, actVars, fsVars, hbVars, clVars, qVars, gitVars>>

NextMutex ==
    \/ \E c \in Callers : CallAcquire(c)
    \/ \E c \in Callers : EnterFn(c)
    \/ \E c \in Callers : CallRelease(c)

\* ------------------------------------------------------------ GitManager
\* Attempts of two domain tasks that share the output directory. Each task
\* writes one deliverable file, named after it here; the content of a file is
\* 0 (no such file) or the number of the attempt that wrote it.
MaxGitAttempts == 2

GitTasks == {vulnAgent("ssh"), vulnAgent("privesc")}

EmptyTree == [f \in GitTasks |-> 0]

NoTree == [f \in GitTasks |-> -1]

\* The tree of HEAD.
HeadTree(r) == IF r.log = <<>> THEN EmptyTree ELSE r.log[Len(r.log)].tree

\* git add -A
gitAddAll(r) == [r EXCEPT !.index = r.worktree]

\* git commit -m message --allow-empty
gitCommit(r, message) == [r EXCEPT !.log = Append(@, [message |-> message, tree |-> r.index])]

\* git reset --hard of the i-th commit of the log: tracked files take the
\* content of the commit, files git does not know stay as they are.
gitResetHard(r, i) ==
    LET target == r.log[i].tree
    IN  [worktree |-> [f \in GitTasks |->
                          IF target[f] # 0 THEN target[f]
                          ELSE IF r.index[f] # 0 \/ HeadTree(r)[f] # 0 THEN 0
                          ELSE r.worktree[f]],
         index |-> target,
         log |-> SubSeq(r.log, 1, i)]

\* What the git commands of a method come to: every command runs, the first
\* one throws, or the commit throws.
GitFates == {"ok", "throws", "commitThrows"}

\* GitManager.init
init(r) ==
    IF r.log = <<>> THEN gitCommit(gitAddAll(r), <<"Initial checkpoint", "">>) ELSE r

createCheckpoint(r, agent, fate) ==
    IF fate = "throws" THEN r
    ELSE IF fate = "commitThrows" THEN gitAddAll(init(r))
    ELSE gitCommit(gitAddAll(init(r)), <<"checkpoint-before", agent>>)

commitCheckpoint(r, agent, fate) ==
    IF fate = "throws" THEN r
    ELSE IF fate = "commitThrows" THEN gitAddAll(r)
    ELSE gitCommit(gitAddAll(r), <<"completed", agent>>)

\* git log --oneline --grep="checkpoint-before-${agent}": the commits it
\* finds.
grepLog(r, agent) == {i \in 1..Len(r.log) : r.log[i].message = <<"checkpoint-before", agent>>}

rollbackCheckpoint(r, agent, fate) ==
    IF fate # "ok" \/ grepLog(r, agent) = {} THEN r
    ELSE gitResetHard(r, CHOOSE i \in grepLog(r, agent) : \A j \in grepLog(r, agent) : j <= i)

NoRollback ==
    [agent |-> "none",
     before |-> [worktree |-> EmptyTree, index |-> EmptyTree, log |-> <<>>],
     after |-> [worktree |-> EmptyTree, index |-> EmptyTree, log |-> <<>>],
     captured |-> NoTree]

InitGit ==
    /\ repo = [worktree |-> EmptyTree, index |-> EmptyTree, log |-> <<>>]
    /\ gitTask = [t \in GitTasks |-> [pc |-> "idle", attempt |-> 0, captured |-> NoTree]]
    /\ rolledBack = NoRollback

\* An attempt of t starts: createCheckpoint. captured is the work tree the
\* checkpoint commit holds (NoTree: the attempt has no checkpoint).
GitCheckpoint(t) ==
    /\ gitTask[t].pc = "idle"
    /\ gitTask[t].attempt < MaxGitAttempts
    /\ \E fate \in GitFates :
        /\ repo' = createCheckpoint(repo, t, fate)
        /\ gitTask' = [gitTask EXCEPT ![t] = [pc |-> "executeAgent", attempt |-> @.attempt + 1,
                                               captured |-> IF fate = "ok" THEN repo.worktree
                                                            ELSE NoTree]]
    /\ UNCHANGED <<rolledBack, wfVars, actVars, fsVars, hbVars, clVars, qVars, mxVars>>

\* executeAgent of t returns or raises, having written its deliverable or not.
GitExecuteAgent(t) ==
    /\ gitTask[t].pc = "executeAgent"
    /\ \E wrote \in BOOLEAN, raised \in BOOLEAN :
        /\ repo' = IF wrote THEN [repo EXCEPT !.worktree[t] = gitTask[t].attempt] ELSE repo
        /\ gitTask' = [gitTask EXCEPT ![t].pc = IF raised THEN "raised" ELSE "returned"]
    /\ UNCHANGED <<rolledBack, wfVars, actVars, fsVars, hbVars, clVars, qVars, mxVars>>

\* The attempt of t succeeded: commitCheckpoint.
GitCommit(t) ==
    /\ gitTask[t].pc = "returned"
    /\ \E fate \in GitFates : repo' = commitCheckpoint(repo, t, fate)
    /\ gitTask' = [gitTask EXCEPT ![t].pc = "done"]
    /\ UNCHANGED <<rolledBack, wfVars, actVars, fsVars, hbVars, clVars, qVars, mxVars>>

\* The attempt of t failed: the catch block calls rollbackCheckpoint; the
\* host may run another attempt.
GitRollback(t) ==
    /\ gitTask[t].pc = "raised"
    /\ \E fate \in {"ok", "throws"} :
        /\ repo' = rollbackCheckpoint(repo, t, fate)
        /\ rolledBack' = IF fate = "ok"
                         THEN [agent |-> t, before |-> repo, after |-> repo',
                               captured |-> gitTask[t].captured]
                         ELSE rolledBack
    /\ gitTask' = [gitTask EXCEPT ![t].pc = "idle"]
    /\ UNCHANGED <<wfVars, actVars, fsVars, hbVars, clVars, qVars, mxVars>>

NextGit ==
    \/ \E t \in GitTasks : GitCheckpoint(t)
    \/ \E t \in GitTasks : GitExecuteAgent(t)
    \/ \E t \in GitTasks : GitCommit(t)
    \/ \E t \in GitTasks : GitRollback(t)

\* --------------------------------------------------------- specifications
vars == <<wfVars, actVars, fsVars, hbVars, clVars, qVars, mxVars, gitVars>>

Init == InitWorkflow /\ InitActivity /\ InitMetrics /\ InitHeartbeat /\ InitClassify /\ InitProgress /\ InitMutex /\ InitGit

Next == NextWorkflow

\* The pipeline workflow.
Spec == Init /\ [][Next]_vars

\* One activity call, attempt by attempt.
SpecActivity == Init /\ [][NextActivity]_vars

\* The trackers of concurrent attempts and session.json.
SpecMetrics == Init /\ [][NextMetrics]_vars

\* The heartbeat timer of one attempt.
SpecHeartbeat == Init /\ [][NextHeartbeat]_vars

\* Calls of classifyError.
SpecClassify == Init /\ [][NextClassify]_vars

\* The pipeline workflow and a client that queries its progress.
SpecProgress == Init /\ [][NextProgress]_vars

\* Callers of withLock on one SessionMutex.
SpecMutex == Init /\ [][NextMutex]_vars

\* Callers of withLock when the microtask of a resolved acquire() runs and
\* every fn settles.
SpecMutexFair ==
    /\ Init /\ [][NextMutex]_vars
    /\ \A c \in Callers : WF_vars(EnterFn(c)) /\ WF_vars(CallRelease(c))

\* Attempts of two tasks in one git work tree.
SpecGit == Init /\ [][NextGit]_vars

\* The pipeline workflow on a host on which every activity call settles: each
\* attempt returns or raises, and the retry policy bounds the attempts.
SpecTermination == Init /\ [][NextWorkflow]_vars /\ WF_vars(NextWorkflow)

\* ------------------------------------------------------------- properties
\* C1: for every domain, once the vuln task's outcome is a failure or has no
\* deliverables, the exploit activity of the domain is never scheduled, and
\* the exploit agent is in skippedAgents and in neither failedAgents nor
\* completedAgents.
C1_NoDeliverablesSkipsExploit ==
    \A d \in Domains :
        (/\ vulnResult[d].agent = vulnAgent(d)
         /\ (~vulnResult[d].success \/ vulnResult[d].deliverables = {}))
        => /\ exploitAgent(d) \notin invoked
           /\ exploitAgent(d) \in Range(state.skippedAgents)
           /\ exploitAgent(d) \notin Range(state.failedAgents)
           /\ exploitAgent(d) \notin Range(state.completedAgents)

\* The pipeline returned after one domain's vuln task failed and another's
\* succeeded without deliverables.
C1_Witness ==
    /\ wfPc = "returned"
    /\ \E d1 \in Domains, d2 \in Domains :
        /\ vulnResult[d1].agent = vulnAgent(d1) /\ ~vulnResult[d1].success
        /\ vulnResult[d2].agent = vulnAgent(d2) /\ vulnResult[d2].success
        /\ vulnResult[d2].deliverables = {}
        /\ exploitAgent(d1) \in Range(state.skippedAgents)
        /\ exploitAgent(d2) \in Range(state.skippedAgents)

\* The attempt SpecActivity ran last, of an activity the worker has registered.
LastAttemptRan ==
    /\ activity.agent \in RegisteredAgents
    /\ activity.last # NoAttempt

\* The task callable was called in the last attempt and raised.
CallableRaised ==
    /\ LastAttemptRan
    /\ activity.last.b.newAuditSession = NoError
    /\ activity.last.b.logAgentStart = NoError
    /\ activity.last.b.executeAgent.error # NoError

\* C2: an attempt in which the task callable raised f raises exactly if
\* classifyError(f).retryable; if not, it returns a failed outcome with no
\* deliverables.
C2_ReraiseIffRetryable ==
    CallableRaised =>
        LET o == activity.last.outcome
            f == activity.last.b.executeAgent.error
        IN  /\ o.raised <=> classifyError(f).retryable
            /\ ~classifyError(f).retryable =>
                   /\ ~o.result.success
                   /\ o.result.deliverables = {}

\* C3: no runner's promise rejects, and a domain whose activity failed for
\* good has the agent in failedAgents.
C3_RunnerNeverRejects ==
    \A d \in Domains :
        /\ runner[d] # "rejected"
        /\ reason[d] # NoError => reason[d].activityType \in Range(state.failedAgents)

\* The steps of the runner of domain d.
RunnerMoves(d) == runner'[d] # runner[d] /\ runner[d] # "idle"

\* What PipelineState holds of the agents of domain d.
OfDomain(st, d) ==
    LET mine(a) == a \in {vulnAgent(d), exploitAgent(d)}
    IN  [activeAgents |-> SelectSeq(st.activeAgents, mine),
         completedAgents |-> SelectSeq(st.completedAgents, mine),
         failedAgents |-> SelectSeq(st.failedAgents, mine),
         skippedAgents |-> SelectSeq(st.skippedAgents, mine),
         agentEvents |-> SelectSeq(st.agentEvents, LAMBDA e : mine(e.agent)),
         metrics |-> SelectSeq(st.metrics, LAMBDA m : mine(m.agent))]

\* How the outcomes of domain d are recorded, given what its tasks returned.
RecordedAsReturned(d) ==
    LET r == vulnResult[d]
    IN  r.agent = vulnAgent(d) =>
            /\ r.metrics \in Range(state.metrics)
            /\ IF r.success THEN vulnAgent(d) \in Range(state.completedAgents)
               ELSE vulnAgent(d) \in Range(state.failedAgents)
            /\ vulnAgent(d) \notin Range(state.activeAgents)

\* C4: the vuln activities of all domains are scheduled together; the exploit
\* activity of a domain is scheduled once its vuln task succeeded with a
\* deliverable, whatever the other domains do; a domain's outcomes are
\* recorded as its own tasks returned them; and a step of one domain's runner
\* changes neither another runner nor what the state holds of another domain.
C4_DomainsIndependent ==
    /\ [](\A d \in Domains :
            /\ (\E x \in Domains : vulnAgent(x) \in invoked) => vulnAgent(d) \in invoked
            /\ (/\ vulnResult[d].agent = vulnAgent(d)
                /\ vulnResult[d].success
                /\ vulnResult[d].deliverables # {}) => exploitAgent(d) \in invoked
            /\ RecordedAsReturned(d))
    /\ [][\A d1 \in Domains, d2 \in Domains :
            (d1 # d2 /\ RunnerMoves(d1))
            => /\ runner'[d2] = runner[d2]
               /\ vulnResult'[d2] = vulnResult[d2]
               /\ OfDomain(state', d2) = OfDomain(state, d2)]_vars

\* One domain's runner rejected, and the exploit task of another domain, whose
\* vuln task left deliverables, completed.
C4_Witness ==
    \E d1 \in Domains, d2 \in Domains :
        /\ d1 # d2
        /\ runner[d1] = "rejected"
        /\ runner[d2] = "fulfilled"
        /\ vulnResult[d2].success /\ vulnResult[d2].deliverables # {}
        /\ exploitAgent(d2) \in Range(state.completedAgents)

SequentialActivities == SequentialAgents \cup ToolActivities

\* C5: the status is 'failed' only after an await of a sequential phase threw
\* into the workflow's catch block, and a workflow that returned is
\* 'completed' whatever failedAgents and skippedAgents hold.
C5_FailedOnlyFromSequentialPhase ==
    /\ state.status = "failed" =>
           /\ wfPc = "thrown"
           /\ caught # NoError
           /\ caught.activityType \in SequentialActivities
    /\ wfPc = "returned" => state.status = "completed"

\* The workflow returned with failed and skipped domain agents.
C5_Witness ==
    /\ wfPc = "returned"
    /\ \E d \in Domains :
        /\ vulnAgent(d) \in Range(state.failedAgents)
        /\ exploitAgent(d) \in Range(state.skippedAgents)
    /\ \E d \in Domains : runner[d] = "rejected"

\* The phases after the one of a sequential agent.
LaterActivities(a) ==
    IF a = "pre-recon"
    THEN {"recon", "report", "assembleReportActivity"} \cup DomainAgents
    ELSE IF a = "recon" THEN {"report", "assembleReportActivity"} \cup DomainAgents
    ELSE {"assembleReportActivity"}

PipelineFatal(a) ==
    /\ wfPc = "thrown"
    /\ state.status = "failed"
    /\ caught = ActivityFailure(a)
    /\ invoked \cap LaterActivities(a) = {}

\* C6 as stated: whatever the task callable of a sequential agent raised in
\* the attempt that settled its activity, the pipeline is failed and no later
\* phase starts.
C6_SequentialFaultFatal ==
    \A a \in SequentialAgents : lastFault[a] # NoError => PipelineFatal(a)

\* C6, amended: a fault of the task callable of a sequential agent is fatal
\* to the pipeline if it is classified retryable and raised again in the last
\* attempt the host allows; a fault classified non-retryable comes back as a
\* failed outcome: the agent is in failedAgents, its message in errors, and
\* the workflow goes on to the next phase.
C6_RetryableSequentialFaultFatal ==
    \A a \in SequentialAgents :
        lastFault[a] # NoError =>
            IF classifyError(lastFault[a]).retryable
            THEN PipelineFatal(a)
            ELSE /\ a \in Range(state.failedAgents)
                 /\ (<<"[" \o a \o "]">> \o lastFault[a].message) \in Range(state.errors)
                 /\ caught # ActivityFailure(a)
                 /\ LaterActivities(a) \cap invoked # {}

\* pre-recon came back failed on a non-retryable fault, the pipeline went on,
\* and recon's retryable fault then failed the pipeline.
C6_Witness ==
    /\ lastFault["pre-recon"] # NoError
    /\ ~classifyError(lastFault["pre-recon"]).retryable
    /\ "pre-recon" \in Range(state.failedAgents)
    /\ lastFault["recon"] # NoError
    /\ classifyError(lastFault["recon"]).retryable
    /\ PipelineFatal("recon")

Count(list, x) == Len(SelectSeq(list, LAMBDA y : y = x))

\* C7 as stated: every attempt of a registered activity calls exactly one of
\* commitCheckpoint and rollbackCheckpoint.
C7_ExactlyOneOfCommitRollback ==
    LastAttemptRan =>
        Count(activity.last.outcome.calls, "commitCheckpoint")
        + Count(activity.last.outcome.calls, "rollbackCheckpoint") = 1

\* What session.json holds.
Persisted == parse(files[SessionJson].text)

\* C8 as stated: once the activities of both agents have returned, session.json
\* holds the completed entry of each with the cost it reported.
C8_BothEntriesPersisted ==
    (\A a \in TrackedAgents : runs[a].status = "returned") =>
        /\ whole(files[SessionJson])
        /\ \A a \in TrackedAgents :
            /\ Persisted.agents[a].status = "completed"
            /\ Persisted.agents[a].cost = runs[a].cost

\* C9: session.json is never a partially written file, and whatever becomes
\* of an atomicWrite call of a live tracker (it returns, throws, or the
\* process dies at any point of it), the file is afterwards the complete
\* previous snapshot or the complete new one, the new one if the call returned.
C9_AtomicWriteCrashAtomic ==
    /\ files[SessionJson].exists => whole(files[SessionJson])
    /\ \A a \in TrackedAgents, fate \in Fates :
        trackers[a].live =>
            LET content == stringify(trackers[a].metrics)
                w == atomicWrite(files, SessionJson, content, pid, fate)
            IN  /\ w.fs[SessionJson] \in {files[SessionJson], FileOf(content)}
                /\ (~w.threw /\ ~w.crashed) => w.fs[SessionJson] = FileOf(content)

\* The process died in the middle of a write, leaving a partial temporary
\* file, and a tracker built after the restart has loaded session.json.
C9_Witness ==
    /\ pid > 0
    /\ whole(files[SessionJson])
    /\ \E p \in 0..(pid - 1) :
        files[tmpPath(SessionJson, p)] = Torn
    /\ \E a \in TrackedAgents : trackers[a].live

\* C10: totalCost is the sum of the costs of state.metrics, and
\* writeFinalSummary computes the same total from that list.
C10_TotalCostIsSumOfMetrics ==
    /\ state.totalCost = reduceCost(state.metrics, 1, 0)
    /\ writeFinalSummary(EmptyMetrics, state.metrics).totalCost = state.totalCost

\* The workflow returned with costs recorded by several agents.
C10_Witness ==
    /\ wfPc = "returned"
    /\ state.totalCost > MaxCost
    /\ \E i \in 1..Len(state.metrics) : state.metrics[i].cost = 0

\* C11: an exploit agent that is active, completed or failed has its vuln
\* agent in completedAgents with at least one deliverable, and its started
\* event comes after the completed event of its vuln agent.
C11_ExploitAfterVulnCompleted ==
    \A d \in Domains :
        (exploitAgent(d) \in Range(state.activeAgents) \cup Range(state.completedAgents)
                             \cup Range(state.failedAgents))
        => /\ vulnAgent(d) \in Range(state.completedAgents)
           /\ vulnResult[d].success
           /\ vulnResult[d].deliverables # {}
           /\ \A i \in 1..Len(state.agentEvents) :
                (state.agentEvents[i].agent = exploitAgent(d)
                 /\ state.agentEvents[i].event = "started")
                => \E j \in 1..(i - 1) :
                    /\ state.agentEvents[j].agent = vulnAgent(d)
                    /\ state.agentEvents[j].event = "completed"

\* One exploit agent is active while another has failed.
C11_Witness ==
    \E d1 \in Domains, d2 \in Domains :
        /\ exploitAgent(d1) \in Range(state.activeAgents)
        /\ exploitAgent(d2) \in Range(state.failedAgents)

\* C12: activeAgents holds no agent twice.
C12_ActiveAgentsDistinct ==
    \A i \in 1..Len(state.activeAgents), j \in 1..Len(state.activeAgents) :
        state.activeAgents[i] = state.activeAgents[j] => i = j

\* Both agents of a domain have been active, and several agents are active
\* at once.
C12_Witness ==
    /\ Len(state.activeAgents) >= 2
    /\ \E d \in Domains :
        /\ exploitAgent(d) \in Range(state.activeAgents)
        /\ vulnAgent(d) \in Range(state.completedAgents)

\* C13: once an attempt has exited, on whatever path, its heartbeat timer is
\* not armed, and no heartbeat is emitted after the exit.
C13_TimerClearedOnExit ==
    Exited => hb.timer # "armed" /\ ~hb.late

\* An attempt of executeAgentActivity that emitted heartbeats exited through
\* its catch block, and time went on.
C13_Witness ==
    /\ Exited
    /\ hb.activityType = "executeAgentActivity"
    /\ "rollbackCheckpoint" \in Range(hb.calls)
    /\ hb.beats
    /\ hb.timer = "cleared"

\* C14 as stated: while an attempt is in progress with its timer armed, the
\* time since the last heartbeat never exceeds the heartbeat timeout.
C14_HeartbeatGapBounded ==
    (hb.activityType # "none" /\ ~Exited /\ hb.timer = "armed") => hb.gap <= TimeoutTicks

\* C15: an activity is attempted at most maximumAttempts times; a further
\* attempt is scheduled only after an attempt that raised a fault classified
\* retryable; and a call fails for good only when its last allowed attempt
\* raised.
C15_RetryOnlyAfterRetryableRaise ==
    /\ activity.attempt <= maximumAttempts
    /\ (activity.status = "scheduled" /\ activity.attempt > 1) =>
           /\ activity.last.outcome.raised
           /\ classifyError(activity.last.outcome.error).retryable
    /\ activity.status = "failed" =>
           /\ activity.attempt = maximumAttempts
           /\ activity.last.outcome.raised

\* C16: the Metrics an activity call returns after n attempts carry
\* attempts = n.
C16_ReturnedAttemptsCountAttempts ==
    (LastAttemptRan /\ activity.status = "returned") =>
        activity.last.outcome.result.metrics.attempts = activity.attempt


\* The kinds of PentestErrorType.
PentestErrorTypes ==
    {"auth_error", "config_error", "target_unreachable", "ssh_connection_error",
     "permission_denied", "tool_not_found", "timeout_error", "rate_limit",
     "transient_error", "agent_error", "validation_error", "unknown_error"}

AuthPatterns ==
    {<<"api", "key">>, <<"unauthorized">>, <<"authentication", "failed">>, <<"invalid", "api">>}

\* The patterns of the transport, timeout and transient rules.
LaterPatterns ==
    {<<"econnrefused">>, <<"ehostunreach">>, <<"connection", "reset">>, <<"timeout">>,
     <<"etimedout">>, <<"timed", "out">>, <<"503">>, <<"temporary">>, <<"transient">>}

\* C17: classifyError returns from the first rule of its table that matches;
\* an Error whose message has an authentication pattern is (auth_error, false)
\* whatever else the message has; an Error with message 'ECONNREFUSED' is
\* (target_unreachable, true) and one with '401 unauthorized invalid api key'
\* is (auth_error, false).
C17_FirstMatchWins ==
    classification.calls > 0 =>
        LET error == classification.error
            message == lower(error.message)
        IN  /\ classification.result = firstMatch(error)
            /\ (\E p \in AuthPatterns : includes(message, p)) =>
                   classification.result = [type |-> "auth_error", retryable |-> FALSE]
            /\ (error.name = "Error" /\ error.message = <<"ECONNREFUSED">>) =>
                   classification.result = [type |-> "target_unreachable", retryable |-> TRUE]
            /\ error.message = <<"401", "unauthorized", "invalid", "api", "key">> =>
                   classification.result = [type |-> "auth_error", retryable |-> FALSE]

\* A message with a transport pattern before an authentication pattern was
\* classified auth_error.
C17_Witness ==
    /\ classification.calls > 0
    /\ classification.error.message = <<"ECONNREFUSED", "api", "key">>
    /\ \E p \in LaterPatterns : includes(lower(classification.error.message), p)
    /\ classification.result.type = "auth_error"

NonRetryableTypes ==
    {"auth_error", "config_error", "permission_denied", "tool_not_found", "validation_error"}

\* C19: the retryable flag classifyError returns is fixed by the type it
\* returns: false for the five non-retryable types, true for the other seven.
C19_RetryableFixedByType ==
    classification.calls > 0 =>
        /\ classification.result.type \in PentestErrorTypes
        /\ classification.result.retryable <=> classification.result.type \notin NonRetryableTypes

\* A timeout was classified.
C19_Witness ==
    /\ classification.calls > 0
    /\ classification.result = [type |-> "timeout_error", retryable |-> TRUE]
    /\ classification.error.message = <<"connect", "ETIMEDOUT">>


\* C20: an activity call whose attempts all raise faults classified
\* unknown_error is attempted twice and then has failed: there is no third
\* attempt.
C20_UnknownErrorRetriedOnce ==
    (/\ activity.raised # <<>>
     /\ \A i \in 1..Len(activity.raised) :
            classifyError(activity.raised[i]).type = "unknown_error") =>
        /\ Len(activity.raised) <= 2
        /\ Len(activity.raised) = 2 => activity.status = "failed"

\* The values of state.currentPhase, in the order the workflow body assigns
\* them.
Phases ==
    <<"Initializing", "Pre-Reconnaissance", "Reconnaissance",
      "Vulnerability Analysis & Exploitation", "Reporting", "Complete">>

PhaseRank(phase) == CHOOSE i \in 1..Len(Phases) : Phases[i] = phase

\* The activities the workflow body awaits itself, in order.
SequentialOrder ==
    <<"preReconToolScanActivity", "pre-recon", "recon", "report", "assembleReportActivity">>

\* C21: currentPhase is one of the six phases and never moves to an earlier
\* one; while the body awaits a sequential activity no later sequential
\* activity is scheduled and no runner is in flight; a domain activity is
\* scheduled only once the recon outcome is recorded; the report activity is
\* scheduled only once every runner has settled.
C21_PhasesInOrder ==
    /\ [](/\ state.currentPhase \in Range(Phases)
          /\ \A i \in 1..Len(SequentialOrder) :
                 wfPc = SequentialOrder[i] =>
                     /\ \A j \in (i + 1)..Len(SequentialOrder) :
                            SequentialOrder[j] \notin invoked
                     /\ \A d \in Domains : runner[d] \notin {"vuln", "exploit"}
          /\ (invoked \cap DomainAgents # {}) =>
                 /\ "recon" \in Range(state.completedAgents) \cup Range(state.failedAgents)
                 /\ PhaseRank(state.currentPhase) >= 4
          /\ "report" \in invoked =>
                 /\ \A d \in Domains : runner[d] \in {"fulfilled", "rejected"}
                 /\ PhaseRank(state.currentPhase) >= 5
          /\ wfPc = "returned" => state.currentPhase = "Complete")
    /\ [][PhaseRank(state'.currentPhase) >= PhaseRank(state.currentPhase)]_vars

\* The report activity is awaited after a domain ran both of its activities
\* and another runner rejected.
C21_Witness ==
    /\ wfPc = "report"
    /\ state.currentPhase = "Reporting"
    /\ \E d \in Domains : exploitAgent(d) \in invoked /\ runner[d] = "fulfilled"
    /\ \E d \in Domains : runner[d] = "rejected"

\* The fields of a PipelineProgress that are arrays, with the field of the
\* state each is taken from.
ProgressArrays ==
    {<<"activeAgents", "activeAgents">>, <<"completedAgents", "completedAgents">>,
     <<"failedAgents", "failedAgents">>, <<"skippedAgents", "skippedAgents">>,
     <<"agentEvents", "agentEvents">>, <<"agentMetrics", "metrics">>,
     <<"errors", "errors">>}

\* C22: the query is answered in every state of the run; the arrays of the
\* last answer read as the lists of the state at the time of the query,
\* whatever the workflow did since; and answering leaves the state alone.
C22_ProgressIsSnapshot ==
    /\ [](/\ ENABLED GetProgress
          /\ progress.asked =>
                 /\ \A f \in ProgressArrays : Read(progress.answer[f[1]], state) = progress.at[f[2]]
                 /\ progress.answer.status = progress.at.status
                 /\ progress.answer.currentPhase = progress.at.currentPhase
                 /\ progress.answer.totalCost = progress.at.totalCost)
    /\ [][progress' # progress => wfVars' = wfVars]_vars

\* A query was answered while the runners were in flight, and the lists of
\* the state have changed since.
C22_Witness ==
    /\ progress.asked
    /\ progress.at.currentPhase = "Vulnerability Analysis & Exploitation"
    /\ progress.at.activeAgents # <<>>
    /\ state.agentEvents # progress.at.agentEvents
    /\ state.activeAgents # progress.at.activeAgents
    /\ state.metrics # progress.at.metrics

\* The callers that hold the mutex: their acquire() has resolved and they
\* have not called release() since.
Holders == {c \in Callers : callerPc[c] \in {"resolved", "woken", "fn"}}

\* C23: at most one caller holds the mutex, and the mutex is locked while one
\* does.
C23_MutualExclusion ==
    /\ Cardinality(Holders) <= 1
    /\ Holders # {} => mutex.locked

\* A caller holds the mutex while two others wait.
C23_Witness ==
    /\ \E c \in Callers : callerPc[c] = "fn"
    /\ Len(mutex.queue) = 2
    /\ Len(grants) >= 2

\* C24: acquire() calls are granted in the order they were issued: the
\* grants are a prefix of the calls, also for a call issued while release()
\* has woken a waiter that has not run yet.
C24_FifoNoBarging ==
    /\ Len(grants) <= Len(issued)
    /\ \A i \in 1..Len(grants) : i <= Len(issued) => grants[i] = issued[i].caller

\* A caller called acquire() while a woken waiter had not run yet and another
\* caller was waiting, and was granted the mutex after both.
C24_Witness ==
    \E i \in 4..Len(grants) :
        /\ issued[i].handoff
        /\ grants[i] = issued[i].caller
        /\ grants[i - 1] # grants[i]

\* The commits of a log that belong to an agent.
RevisionsOf(log, agent) == {log[i] : i \in {j \in 1..Len(log) : log[j].message[2] = agent}}

\* C25: a rollbackCheckpoint of one task leaves the checkpoint-before and
\* completed commits of the other task in the history and leaves the other
\* task's deliverable file as it was.
C25_RollbackKeepsOtherTasksWork ==
    rolledBack.agent # "none" =>
        \A b \in GitTasks \ {rolledBack.agent} :
            /\ RevisionsOf(rolledBack.before.log, b) \subseteq RevisionsOf(rolledBack.after.log, b)
            /\ rolledBack.after.worktree[b] = rolledBack.before.worktree[b]

\* C26: after rollbackCheckpoint of a task whose attempt created a
\* checkpoint, the task's file is as the checkpoint captured it; with no
\* checkpoint of the task in the history the directory is unchanged.
C26_RollbackRestoresCheckpoint ==
    rolledBack.agent # "none" =>
        /\ rolledBack.captured # NoTree =>
               rolledBack.after.worktree[rolledBack.agent] = rolledBack.captured[rolledBack.agent]
        /\ grepLog(rolledBack.before, rolledBack.agent) = {} =>
               rolledBack.after = rolledBack.before

\* C27: in an attempt whose AuditSession was built, a throw of logAgentStart,
\* logAgentComplete or logAgentError does not change the outcome: the task
\* callable is still called; if it returned (and the deliverables were
\* validated) the attempt returns success; if it raised f the attempt raises
\* exactly if classifyError(f).retryable.
C27_BestEffortNeverChangesOutcome ==
    (LastAttemptRan /\ activity.last.b.newAuditSession = NoError) =>
        LET b == activity.last.b
            o == activity.last.outcome
            f == b.executeAgent.error
        IN  /\ "executeAgent" \in Range(o.calls)
            /\ (f = NoError /\ b.validateDeliverables.error = NoError) =>
                   /\ ~o.raised
                   /\ o.result.success
            /\ f # NoError => (o.raised <=> classifyError(f).retryable)

\* C28: an attempt in which the task callable returned returns success, with
\* exactly the expected files validateDeliverables found as deliverables,
\* however many of the expected files are missing.
C28_MissingDeliverablesDoNotFail ==
    (/\ LastAttemptRan
     /\ activity.last.b.newAuditSession = NoError
     /\ activity.last.b.logAgentStart = NoError
     /\ activity.last.b.executeAgent.error = NoError) =>
        /\ ~activity.last.outcome.raised
        /\ activity.last.outcome.result.success
        /\ activity.last.outcome.result.deliverables = activity.last.b.validateDeliverables.found
        /\ activity.last.outcome.result.deliverables \subseteq AGENT_VALIDATORS(activity.agent)

RECURSIVE EventsOf(_, _)
EventsOf(events, agent) ==
    IF events = <<>> THEN <<>>
    ELSE (IF Head(events).agent = agent THEN <<Head(events).event>> ELSE <<>>)
         \o EventsOf(Tail(events), agent)

\* C30: the events of an agent in state.agentEvents are nothing, 'started',
\* 'started' then one of 'completed' and 'failed', or a single 'skipped'; an
\* agent in skippedAgents has exactly the 'skipped' event.
C30_EventsInEmissionOrder ==
    \A a \in Agents :
        /\ EventsOf(state.agentEvents, a) \in
               {<<>>, <<"started">>, <<"started", "completed">>, <<"started", "failed">>,
                <<"skipped">>}
        /\ a \in Range(state.skippedAgents) <=> EventsOf(state.agentEvents, a) = <<"skipped">>

\* Both domains ran to the end with their events interleaved: the second
\* domain's vuln agent completed before the first's, whose exploit agent was
\* skipped while the second's was started and failed.
C30_Witness ==
    /\ wfPc = "returned"
    /\ \E i, j \in 1..Len(state.agentEvents) :
        /\ i < j
        /\ state.agentEvents[i].agent = vulnAgent(LaunchOrder[2])
        /\ state.agentEvents[i].event = "completed"
        /\ state.agentEvents[j].agent = vulnAgent(LaunchOrder[1])
        /\ state.agentEvents[j].event \in {"completed", "failed"}
    /\ EventsOf(state.agentEvents, exploitAgent(LaunchOrder[1])) = <<"skipped">>
    /\ EventsOf(state.agentEvents, exploitAgent(LaunchOrder[2])) = <<"started", "failed">>

\* ------------------------------------------------------------------ C31
\* The entries of state.errors that recordResult wrote for an agent.
ErrorsAbout(st, agent) ==
    {i \in 1..Len(st.errors) : Head(st.errors[i]) = "[" \o agent \o "]"}

\* C31: a skipped agent never counts toward pipeline-level failure. In every
\* state an agent in skippedAgents is not in failedAgents and no entry of
\* errors is about it; the step that marks an exploit agent skipped adds to
\* failedAgents at most the vuln agent whose outcome was just recorded and to
\* errors only that outcome's entry and the rejections of other runners; a
\* workflow that returned is 'completed' and the client exits with 0 when
\* failedAgents is empty, however many agents were skipped.
C31_SkipNeverCountsAsFailure ==
    /\ [](/\ \A a \in Range(state.skippedAgents) :
                /\ a \notin Range(state.failedAgents)
                /\ ErrorsAbout(state, a) = {}
          /\ (wfPc = "returned" /\ state.skippedAgents # <<>>) =>
                /\ state.status = "completed"
                /\ (state.failedAgents = <<>> => exitCode(wfPc, state) = 0))
    /\ [][\A d \in Domains :
            (/\ exploitAgent(d) \notin Range(state.skippedAgents)
             /\ exploitAgent(d) \in Range(state'.skippedAgents))
            => /\ Range(state'.failedAgents) \ Range(state.failedAgents) \subseteq {vulnAgent(d)}
               /\ \A i \in (Len(state.errors) + 1)..Len(state'.errors) :
                    Head(state'.errors[i]) \in {"[" \o vulnAgent(d) \o "]", "Pipeline"}
               /\ state'.status = state.status]_vars

\* The workflow returned with every exploit agent skipped and no failed
\* agent: the client exits with 0.
C31_Witness ==
    /\ wfPc = "returned"
    /\ Len(state.skippedAgents) = NumDomains
    /\ state.failedAgents = <<>>
    /\ exitCode(wfPc, state) = 0

\* ------------------------------------------------------------------ C32
\* The snapshot the last worker process left behind.
BeforeRestart == parse(atRestart.text)

\* The tracker of agent a is constructed in this step.
Constructed(a) == ~trackers[a].live /\ trackers'[a].live

Dispatched ==
    SequentialAgents
    \cup {vulnAgent(LaunchOrder[i]) : i \in 1..Len(LaunchOrder)}
    \cup {exploitAgent(LaunchOrder[i]) : i \in 1..Len(LaunchOrder)}

\* C33 as stated: the activity of every agent the workflow dispatches is
\* registered on the worker (no attempt of it fails as not registered) and the
\* agent has expected deliverables in AGENT_VALIDATORS.
C33_DispatchedAgentsRegistered ==
    (activity.agent \in Dispatched /\ activity.attempt > 0) =>
        /\ activity.agent \in RegisteredAgents
        /\ AGENT_VALIDATORS(activity.agent) # {}
        /\ activity.last.outcome.error # NotRegistered

\* ------------------------------------------------------------------ C34
\* C34 as stated: once the workflow has returned, activeAgents is empty and
\* each agent of each launched domain is in exactly one of completedAgents,
\* failedAgents and skippedAgents.
C34_ReturnedStateAccountsForAgents ==
    (wfPc = "returned" /\ state.status = "completed") =>
        /\ state.activeAgents = <<>>
        /\ \A a \in DomainAgents :
            Count(state.completedAgents, a) + Count(state.failedAgents, a)
            + Count(state.skippedAgents, a) = 1

\* ------------------------------------------------------------------ C35
\* C35: in every state each agent occurs at most once across completedAgents,
\* failedAgents and skippedAgents (the lists are pairwise disjoint and free of
\* repetitions), state.metrics holds at most one entry per agent, and an
\* agent in one of the lists is not in activeAgents.
C35_ListsDisjoint ==
    \A a \in Agents :
        /\ Count(state.completedAgents, a) + Count(state.failedAgents, a)
           + Count(state.skippedAgents, a) <= 1
        /\ Len(SelectSeq(state.metrics, LAMBDA m : m.agent = a)) <= 1
        /\ a \in Range(state.completedAgents) \cup Range(state.failedAgents)
                 \cup Range(state.skippedAgents)
           => a \notin Range(state.activeAgents)

\* The three lists are all in use while another agent is still active.
C35_Witness ==
    /\ state.completedAgents # <<>>
    /\ state.failedAgents # <<>>
    /\ state.skippedAgents # <<>>
    /\ state.activeAgents # <<>>
    /\ Len(state.metrics) = Len(state.completedAgents) + Len(state.failedAgents)

\* ------------------------------------------------------------------ C36
\* The workflow is suspended in an await: a progress query can run.
AtAwait == wfPc \notin {"start", "returned", "thrown"}

\* C36 as stated: at every await point of the workflow currentAgent is null
\* or a member of activeAgents.
C36_CurrentAgentIsActive ==
    AtAwait => \/ state.currentAgent = "null"
               \/ state.currentAgent \in Range(state.activeAgents)

\* ------------------------------------------------------------------ C37
\* The rule of the classification table for an error kind.
RuleOf(type) ==
    ClassificationTable[CHOOSE i \in 1..Len(ClassificationTable) :
                            ClassificationTable[i].type = type]

\* C37 as stated: an Error whose message has a permission-denied pattern and
\* that matches neither the authentication nor the configuration rule is
\* classified non-retryable, whatever else the message contains.
C37_PermissionDeniedNotRetried ==
    classification.calls > 0 =>
        LET error == classification.error
        IN  (/\ matches(error, RuleOf("permission_denied"))
             /\ ~matches(error, RuleOf("auth_error"))
             /\ ~matches(error, RuleOf("config_error")))
            => ~classification.result.retryable

\* ------------------------------------------------------------------ C38
\* The workflow function has returned or thrown.
Terminated == wfPc \in {"returned", "thrown"}

\* C38: when every activity call settles, pentestPipelineWorkflow terminates:
\* it returns with status 'completed' and currentPhase 'Complete', or throws
\* with status 'failed'; the status is 'running' until then and does not
\* change once it has left 'running'.
C38_WorkflowTerminates ==
    /\ <>Terminated
    /\ [](/\ wfPc = "returned" =>
                state.status = "completed" /\ state.currentPhase = "Complete"
          /\ wfPc = "thrown" => state.status = "failed"
          /\ ~Terminated => state.status = "running")
    /\ [][state.status # "running" => state'.status = state.status]_vars

\* The workflow returned although the activity of a domain agent had failed
\* for good after the attempts the retry policy allows.
C38_Witness ==
    /\ wfPc = "returned"
    /\ state.status = "completed"
    /\ \E d \in Domains : runner[d] = "rejected"

\* ------------------------------------------------------------------ C39
\* C39: SessionMutex loses no wake-up. When every holder's fn settles, every
\* acquire() that had to wait resolves and its caller runs fn; release() is
\* called whether fn returned or threw; and when no withLock call is in
\* progress the mutex is unlocked and its queue is empty.
C39_NoLostWakeup ==
    /\ \A c \in Callers : (callerPc[c] = "waiting") ~> (callerPc[c] = "fn")
    /\ \A c \in Callers : (callerPc[c] = "fn") ~> (callerPc[c] \in {"returned", "threw"})
    /\ []((\A c \in Callers : callerPc[c] \in Outside) =>
            ~mutex.locked /\ mutex.queue = <<>>)

\* Two callers waited behind a holder whose fn threw; all three calls have
\* finished and the mutex is free.
C39_Witness ==
    /\ \A c \in Callers : callerPc[c] \in {"returned", "threw"}
    /\ \E c \in Callers : callerPc[c] = "threw" /\ grants[1] = c
    /\ Len(grants) = NumCallers
    /\ \A i \in 2..NumCallers : ~issued[i].handoff
    /\ ~mutex.locked /\ mutex.queue = <<>>

\* ------------------------------------------------------------------ C40
\* The sum of the cost fields of the agent entries of a snapshot.
RECURSIVE EntryCosts(_, _)
EntryCosts(metrics, todo) ==
    IF todo = {} THEN 0
    ELSE LET a == CHOOSE x \in todo : TRUE
         IN  (IF "cost" \in DOMAIN metrics.agents[a] THEN metrics.agents[a].cost ELSE 0)
             + EntryCosts(metrics, todo \ {a})

\* C40 as stated: in the persisted session.json totalCost is the sum of the
\* cost fields of the agent entries, and every agent whose activity has
\* returned a completed task has an entry with status 'completed'.
C40_PersistedTotalsConsistent ==
    whole(files[SessionJson]) =>
        /\ Persisted.totalCost = EntryCosts(Persisted, TrackedAgents)
        /\ \A a \in TrackedAgents :
            runs[a].status = "returned" => Persisted.agents[a].status = "completed"

====
